---- MODULE Spec2Model ----
(***************************************************************************)
(* A model of bittensor-async-api: the dividend endpoint of the API        *)
(* process (bearer check, cache-then-chain-then-simulation fetch, optional *)
(* enqueue of a stake job), the Celery worker that executes the stake job  *)
(* (sentiment, stake/unstake, retry, expiry), and the stake calls on the   *)
(* shared BitensorClient and its wallet.                                   *)
(*                                                                         *)
(* Units: time in seconds; dividend values in 1e-4 TAO (0.01 TAO = 100);   *)
(* stake amounts in 0.01 TAO.                                              *)
(***************************************************************************)
EXTENDS Integers, Sequences, FiniteSets, TLC

VARIABLES
    now,      \* wall clock, time.time()
    env,      \* process environment: PYTEST_CURRENT_TEST, auth import, NETUID, API keys
    started,  \* the API's startup_event has run
    client,   \* bittensor_client._client and the fields of the BitensorClient
    cache,    \* the redis keys "dividends:..." : key -> [val, exp]
    queue,    \* the broker's messages for celery_worker.process_stake_operation
    nextId,   \* next fresh id: of a task, of a BitensorClient object, of a row
    resp,     \* what the last completed operation did and answered
    tasks,    \* worker side: task id -> state, executions, result, stake calls
    calls,    \* stake calls in flight on the shared client: call id -> frame
    txs,      \* transactions handed to the chain SDK, in order
    history,  \* the rows of the table dividend_history, in the order of their insertion
    issued    \* the JWTs handed out so far: by POST /token, by create_api_token

vars == <<now, env, started, client, cache, queue, nextId, resp, tasks, calls, txs,
          history, issued>>

---------------------------------------------------------------------------
(* Program constants *)

InitRetryInterval == 60
CacheTTL == 120
DefaultNetuid == 18
TaskExpires == 60
MaxRetries == 3
SimMin == 100
SimMax == 1000
ScoreMin == -100
ScoreMax == 100
TestScore == 75

DefaultHotkey == "5FFApaS75bv5pJHfAp2FVLBj9ZaXuFDjEypsaBNc1wCfe52v"
WalletHotkey == "default"
VALID_TOKENS == {"datura"}
SECRET_KEY == "INSECURE_SECRET_KEY_CHANGE_ME_IN_PRODUCTION"

(* Bounds of the model *)

Epoch == 100          \* time.time() when the process starts (far from 0)
Step == 60            \* the API side's clock advances in steps of this many seconds
MaxClock == 220       \* the clock stops advancing here
MaxChainValue == 0    \* the chain reports dividends up to MaxChainValue
MaxQueue == 1         \* messages the broker holds / task ids handed out
MaxCalls == 2         \* concurrent stake calls
MaxJobs == 1          \* jobs the worker side sees enqueued
MaxRaw == 101         \* the sentiment model answers numbers in -MaxRaw..MaxRaw
WorkerHorizon == 70   \* the worker side's clock runs from Epoch this far

---------------------------------------------------------------------------
(* Python values: an argument is None, an int or a str *)

PyNone == [t |-> "none", i |-> 0, s |-> ""]
PyInt(n) == [t |-> "int", i |-> n, s |-> ""]
PyStr(x) == [t |-> "str", i |-> 0, s |-> x]

\* f"{x}"
Fmt(a) == IF a.t = "int" THEN ToString(a.i) ELSE IF a.t = "str" THEN a.s ELSE "None"

\* int(s) on the strings the model sends; every other string raises ValueError
IntOfStr == [s \in {"18", "018"} |-> 18]

IntParses(s) == s \in DOMAIN IntOfStr

\* str(x) and float(s) on dividend values. float() takes whatever number the
\* chain SDK hands over, of either sign: one below zero, and those up to
\* MaxChainValue above it.
ChainValues == {-1} \cup 1..MaxChainValue
SimValues == {SimMin, SimMax}
\* The floats a dividend value can be: chain answers, simulated values, and the
\* 0.0 of the endpoint's except branch
DividendValues == ChainValues \cup SimValues \cup {0}

StrOfFloat(v) == ToString(v)

FloatParses(s) == \E v \in DividendValues : ToString(v) = s

FloatOfStr(s) == CHOOSE v \in DividendValues : ToString(v) = s

---------------------------------------------------------------------------
(* BitensorClient: construction and initialisation *)

NoWallet == "<no wallet>"

NoClient == [exists |-> FALSE, is_initialized |-> FALSE, initialization_error |-> "",
             last_init_attempt |-> 0, async_subtensor |-> FALSE, wallet |-> NoWallet]

\* BitensorClient.__init__ under PYTEST_CURRENT_TEST or not
NewClient(pytest) == [NoClient EXCEPT !.exists = TRUE, !.is_initialized = pytest]

\* One connection attempt and what follows it. k is the environment's answer: the
\* first attempt at which get_current_block() answers, 0 when none does.
RECURSIVE InitAttempts(_, _, _, _)
InitAttempts(cl, attempt, k, waits) ==
    LET tried == [cl EXCEPT !.wallet = WalletHotkey, !.async_subtensor = TRUE] IN
    IF attempt = k
    THEN [ok |-> TRUE,
          cl |-> [tried EXCEPT !.is_initialized = TRUE, !.initialization_error = ""],
          attempts |-> attempt, waits |-> waits]
    ELSE LET failed == [tried EXCEPT !.initialization_error = "connect failed"] IN
         IF attempt < 3
         THEN InitAttempts(failed, attempt + 1, k, Append(waits, 2 ^ (attempt - 1)))
         ELSE [ok |-> FALSE, cl |-> failed, attempts |-> attempt, waits |-> waits]

Initialize(cl, t, pytest, k) ==
    IF cl.is_initialized \/ pytest
    THEN [ok |-> TRUE, cl |-> cl, attempts |-> 0, waits |-> <<>>]
    ELSE IF t - cl.last_init_attempt < InitRetryInterval
    THEN [ok |-> FALSE, cl |-> cl, attempts |-> 0, waits |-> <<>>]
    ELSE InitAttempts([cl EXCEPT !.last_init_attempt = t], 1, k, <<>>)

EnsureInitialized(cl, t, pytest, k) ==
    IF pytest
    THEN [ok |-> TRUE, cl |-> cl, attempts |-> 0, waits |-> <<>>]
    ELSE IF ~cl.is_initialized
    THEN Initialize(cl, t, pytest, k)
    ELSE [ok |-> cl.is_initialized, cl |-> cl, attempts |-> 0, waits |-> <<>>]

\* get_client() without the "if _client is None" test: a new object on every call
GetClientAlwaysNew(cl, e) ==
    IF ~e.netuidOk THEN [exc |-> TRUE, cl |-> cl, spawned |-> FALSE, built |-> FALSE]
    ELSE [exc |-> FALSE, cl |-> NewClient(e.pytest), spawned |-> ~e.pytest, built |-> TRUE]

\* get_client(): the singleton, built on first use. int(os.getenv("NETUID", 18))
\* raises ValueError when NETUID is set to a non-number, and _client stays None.
\* Outside pytest the constructor schedules initialize() as a task of its own.
\* built tells that this call ran the constructor to its end.
GetClient(cl, e) ==
    IF cl.exists THEN [exc |-> FALSE, cl |-> cl, spawned |-> FALSE, built |-> FALSE]
    ELSE IF ~e.netuidOk THEN [exc |-> TRUE, cl |-> cl, spawned |-> FALSE, built |-> FALSE]
    ELSE [exc |-> FALSE, cl |-> NewClient(e.pytest), spawned |-> ~e.pytest, built |-> TRUE]

\* The client a module-level wrapper's method works on after its first await:
\* the task the constructor scheduled has its initialize() behind it by then (a
\* method that finds the attempts still running is turned away by the rate
\* limit, as it is after attempts that failed).
ClientAfterSpawn(g, t, e, k) ==
    IF g.spawned THEN Initialize(g.cl, t, e.pytest, k).cl ELSE g.cl

---------------------------------------------------------------------------
(* The redis cache of dividend values *)

\* f"dividends:{netuid}:{hotkey}"
CacheKey(netuid, hotkey) == "dividends:" \o Fmt(netuid) \o ":" \o Fmt(hotkey)

\* redis.get: the stored string, "" standing for nil (both are falsy in Python)
RedisGet(c, key, t) == IF key \in DOMAIN c /\ t < c[key].exp THEN c[key].val ELSE ""

\* redis.set(key, val, ex=120)
RedisSet(c, key, val, t) == (key :> [val |-> val, exp |-> t + CacheTTL]) @@ c

\* The keys redis still holds at time t
Unexpired(c, t) == [k \in {x \in DOMAIN c : t < c[x].exp} |-> c[k]]

\* CheckCache without the early return of a cached value
CheckCacheNoReturn(c, key, t, fail) == [exc |-> FALSE, hit |-> FALSE, value |-> 0]

\* "Check cache first": the try block of get_tao_dividends. exc is an exception
\* leaving the block: except Exception catches the failed read and a ValueError
\* of float() alike.
CheckCache(c, key, t, fail) ==
    IF fail THEN [exc |-> FALSE, hit |-> FALSE, value |-> 0]
    ELSE LET got == RedisGet(c, key, t) IN
         IF got # "" /\ FloatParses(got)
         THEN [exc |-> FALSE, hit |-> TRUE, value |-> FloatOfStr(got)]
         ELSE [exc |-> FALSE, hit |-> FALSE, value |-> 0]

\* StoreCache without its try/except: a failed write leaves the block as an exception
StoreCacheUnguarded(c, key, v, t, fail) ==
    IF fail THEN [exc |-> TRUE, wrote |-> FALSE, cache |-> c]
    ELSE [exc |-> FALSE, wrote |-> TRUE, cache |-> RedisSet(c, key, StrOfFloat(v), t)]

\* "Cache the result": the try block around redis.set; a failed write is logged
StoreCache(c, key, v, t, fail) ==
    IF fail THEN [exc |-> FALSE, wrote |-> FALSE, cache |-> c]
    ELSE [exc |-> FALSE, wrote |-> TRUE, cache |-> RedisSet(c, key, StrOfFloat(v), t)]

---------------------------------------------------------------------------
(* BitensorClient.get_tao_dividends *)

\* self.async_subtensor.query_map(...): on a client without a connection object
\* the attribute access on None raises before any query is sent
QueryChain(cl, chain) == IF cl.async_subtensor THEN chain ELSE [kind |-> "raise", v |-> 0]

\* "Use defaults if not provided" and "Convert netuid to integer if it's a string"
NormNetuid(netuid) ==
    LET n == IF netuid.t # "none" THEN netuid ELSE PyInt(DefaultNetuid) IN
    IF n.t = "str"
    THEN IF IntParses(n.s) THEN PyInt(IntOfStr[n.s]) ELSE PyInt(DefaultNetuid)
    ELSE n

NormHotkey(hotkey) == IF hotkey.t # "none" THEN hotkey ELSE PyStr(DefaultHotkey)

\* The record of one call: whether it raised, the value returned, the client and
\* cache it leaves, and what it did on the way; simulated is the client's
\* _last_query_simulated flag as the call leaves it (nothing reads it afterwards)
CallStart(cl, c, rkey) ==
    [raised |-> FALSE, value |-> 0, cl |-> cl, cache |-> c, reads |-> 0, writes |-> 0,
     inits |-> 0, attempts |-> 0, queries |-> 0, sims |-> 0, hit |-> FALSE,
     readKey |-> rkey, writeKey |-> "", written |-> "", source |-> "none",
     simulated |-> FALSE]

\* "Fall back to simulation if we couldn't get real data" and cache it
Fallback(b, wkey, t, o) ==
    LET st == StoreCache(b.cache, wkey, o.sim, t, o.writeFail) IN
    [b EXCEPT !.simulated = TRUE, !.sims = 1, !.writes = @ + 1,
              !.raised = st.exc, !.value = o.sim, !.source = "sim",
              !.cache = st.cache, !.writeKey = wkey, !.written = StrOfFloat(o.sim)]

\* The chain query's try block: a value is cached and returned; None falls
\* through; an exception (the query's, float()'s) is logged and falls through
GetTaoDividends(cl0, c, netuid, hotkey, t, pytest, o) ==
    LET rkey == CacheKey(netuid, hotkey)
        chk == CheckCache(c, rkey, t, o.readFail)
        b1 == [CallStart(cl0, c, rkey) EXCEPT !.simulated = FALSE, !.reads = 1]
    IN
    IF chk.exc THEN [b1 EXCEPT !.raised = TRUE]
    ELSE IF chk.hit THEN [b1 EXCEPT !.hit = TRUE, !.value = chk.value, !.source = "cache"]
    ELSE
    LET n == NormNetuid(netuid)
        h == NormHotkey(hotkey)
        wkey == CacheKey(n, h)
        ini == EnsureInitialized(cl0, t, pytest, o.k)
        b2 == [b1 EXCEPT !.inits = 1, !.attempts = ini.attempts, !.cl = ini.cl]
    IN
    IF ~ini.ok
    THEN [b2 EXCEPT !.simulated = TRUE, !.sims = 1, !.value = o.sim,
                    !.source = "sim"]
    ELSE
    LET q == QueryChain(ini.cl, o.chain)
        b3 == [b2 EXCEPT !.queries = IF ini.cl.async_subtensor THEN 1 ELSE 0]
    IN
    IF q.kind = "value"
    THEN LET st == StoreCache(c, wkey, q.v, t, o.writeFail) IN
         IF st.exc
         THEN Fallback([b3 EXCEPT !.writes = 1], wkey, t, o)
         ELSE [b3 EXCEPT !.writes = 1, !.value = q.v, !.source = "chain",
                         !.cache = st.cache, !.writeKey = wkey,
                         !.written = StrOfFloat(q.v)]
    ELSE Fallback(b3, wkey, t, o)

\* The module-level get_tao_dividends(netuid, hotkey): get_client(), then the method
GetTaoDividendsFn(cl, c, netuid, hotkey, t, e, o) ==
    LET g == GetClient(cl, e) IN
    IF g.exc
    THEN [CallStart(cl, c, CacheKey(netuid, hotkey)) EXCEPT !.raised = TRUE]
    ELSE GetTaoDividends(ClientAfterSpawn(g, t, e, o.k), c, netuid, hotkey, t, e.pytest, o)

---------------------------------------------------------------------------
(* Bearer credentials: HTTPBearer, get_jwt_from_header, verify_token *)

NoHeader == [kind |-> "none", s |-> "", key |-> "", hasExp |-> FALSE, exp |-> 0, sub |-> FALSE,
             scopes |-> {}]
Static(x) == [NoHeader EXCEPT !.kind = "static", !.s = x]
Jwt(key, hasExp, exp, sub) ==
    [kind |-> "jwt", s |-> "", key |-> key, hasExp |-> hasExp, exp |-> exp, sub |-> sub,
     scopes |-> {}]

\* jwt.decode without the check of the exp claim
JwtDecodeNoExpiry(tok, t) ==
    IF tok.kind = "jwt" /\ tok.key = SECRET_KEY
    THEN [raised |-> FALSE,
          payload |-> (IF tok.hasExp THEN {"exp"} ELSE {})
                      \cup (IF tok.sub THEN {"sub"} ELSE {})
                      \cup (IF tok.scopes # {} THEN {"scopes"} ELSE {})]
    ELSE [raised |-> TRUE, payload |-> {}]

\* jose's jwt.decode(token, SECRET_KEY, algorithms=[ALGORITHM]): the signature must
\* verify and an exp claim, when present, must not lie before now
JwtDecode(tok, t) ==
    IF tok.kind = "jwt" /\ tok.key = SECRET_KEY /\ (tok.hasExp => tok.exp >= t)
    THEN [raised |-> FALSE,
          payload |-> (IF tok.hasExp THEN {"exp"} ELSE {})
                      \cup (IF tok.sub THEN {"sub"} ELSE {})
                      \cup (IF tok.scopes # {} THEN {"scopes"} ELSE {})]
    ELSE [raised |-> TRUE, payload |-> {}]

\* get_jwt_from_header: the payload, or None
GetJwtFromHeader(tok, t, e) ==
    IF ~e.auth THEN [none |-> TRUE, payload |-> {}]
    ELSE LET d == JwtDecode(tok, t) IN
         IF d.raised THEN [none |-> TRUE, payload |-> {}]
         ELSE [none |-> FALSE, payload |-> d.payload]

\* Python truth of get_jwt_from_header's result: None and the empty dict are false
Truthy(p) == ~p.none /\ p.payload # {}

\* Depends(security) then verify_token: the status the dependency answers with,
\* 200 standing for "returns the token"
VerifyToken(tok, t, e) ==
    IF tok.kind \in {"none", "basic"} THEN 403
    ELSE IF Truthy(GetJwtFromHeader(tok, t, e)) THEN 200
    ELSE IF tok.kind = "static" /\ tok.s \in VALID_TOKENS THEN 200
    ELSE 403

---------------------------------------------------------------------------
(* GET /api/v1/tao_dividends *)

\* "Convert netuid to integer if possible"
NetuidInt(s) == IF IntParses(s) THEN PyInt(IntOfStr[s]) ELSE PyStr(s)

\* apply_async called without expires
ApplyAsyncNoExpiry(netuid, hotkey, t, id) ==
    [id |-> id, netuid |-> netuid, hotkey |-> hotkey, expires |-> t + TaskExpires,
     hasExpires |-> FALSE, eta |-> t, retries |-> 0]

\* apply_async called with the handler's default hotkey instead of the request's
ApplyAsyncDefaultHotkey(netuid, hotkey, t, id) ==
    [id |-> id, netuid |-> netuid, hotkey |-> DefaultHotkey, expires |-> t + TaskExpires,
     hasExpires |-> TRUE, eta |-> t, retries |-> 0]

\* process_stake_operation.apply_async(args=[netuid_int, hotkey], expires=60)
ApplyAsync(netuid, hotkey, t, id) ==
    [id |-> id, netuid |-> netuid, hotkey |-> hotkey, expires |-> t + TaskExpires,
     hasExpires |-> TRUE, eta |-> t, retries |-> 0]

NoBody == [netuid |-> "", hotkey |-> "", dividend_value |-> 0, trade_triggered |-> FALSE,
           task_id |-> 0, status |-> ""]

\* response_data with the netuid parameter passed through int() before str()
ResponseDataOfInt(netuid, hotkey, value) ==
    [netuid |-> Fmt(NetuidInt(netuid)), hotkey |-> hotkey, dividend_value |-> value,
     trade_triggered |-> FALSE, task_id |-> 0, status |-> "success"]

\* response_data as the try block first builds it: str(netuid) of the query
\* parameter, the hotkey parameter, the value fetched
ResponseData(netuid, hotkey, value) ==
    [netuid |-> Fmt(PyStr(netuid)), hotkey |-> hotkey, dividend_value |-> value,
     trade_triggered |-> FALSE, task_id |-> 0, status |-> "success"]

\* What a call left to be observed: the call record without the client and cache
Trace(r, entered) ==
    [entered |-> entered, raised |-> r.raised, value |-> r.value, reads |-> r.reads,
     writes |-> r.writes, inits |-> r.inits, attempts |-> r.attempts,
     queries |-> r.queries, sims |-> r.sims, hit |-> r.hit, readKey |-> r.readKey,
     writeKey |-> r.writeKey, written |-> r.written, source |-> r.source,
     simulated |-> r.simulated]

NoTrace == Trace(CallStart(NoClient, <<>>, ""), FALSE)

\* The handler with the enqueue placed outside the try block of the fetch
HandleTradeFirst(netuid, hotkey, trade, cl, c, t, e, id, o) ==
    LET netuid_int == NetuidInt(netuid)
        r == GetTaoDividendsFn(cl, c, netuid_int, PyStr(hotkey), t, e, o)
        tr == Trace(r, ~GetClient(cl, e).exc)
        data == ResponseData(netuid, hotkey, IF r.raised THEN 0 ELSE r.value)
        body == IF r.raised THEN [data EXCEPT !.status = "simulated"] ELSE data
    IN
    IF ~trade
    THEN [code |-> 200, body |-> body, cl |-> r.cl, cache |-> r.cache, call |-> tr,
          enqueued |-> <<>>]
    ELSE IF o.enqOk
    THEN [code |-> 200, body |-> [body EXCEPT !.trade_triggered = TRUE, !.task_id = id],
          cl |-> r.cl, cache |-> r.cache, call |-> tr,
          enqueued |-> <<ApplyAsync(netuid_int, hotkey, t, id)>>]
    ELSE [code |-> 200, body |-> [body EXCEPT !.status = "partial_success"],
          cl |-> r.cl, cache |-> r.cache, call |-> tr, enqueued |-> <<>>]

\* The handler's body once the dependency has let the request in. A raising
\* fetch is answered from the except branch: 200, 0.0, "simulated".
Handle(netuid, hotkey, trade, cl, c, t, e, id, o) ==
    LET netuid_int == NetuidInt(netuid)
        r == GetTaoDividendsFn(cl, c, netuid_int, PyStr(hotkey), t, e, o)
        tr == Trace(r, ~GetClient(cl, e).exc)
        data == ResponseData(netuid, hotkey, r.value)
    IN
    IF r.raised
    THEN [code |-> 200,
          body |-> [data EXCEPT !.dividend_value = 0, !.status = "simulated"],
          cl |-> r.cl, cache |-> r.cache, call |-> tr, enqueued |-> <<>>]
    ELSE IF ~trade
    THEN [code |-> 200, body |-> data, cl |-> r.cl, cache |-> r.cache, call |-> tr,
          enqueued |-> <<>>]
    ELSE IF o.enqOk
    THEN [code |-> 200, body |-> [data EXCEPT !.trade_triggered = TRUE, !.task_id = id],
          cl |-> r.cl, cache |-> r.cache, call |-> tr,
          enqueued |-> <<ApplyAsync(netuid_int, hotkey, t, id)>>]
    ELSE [code |-> 200, body |-> [data EXCEPT !.status = "partial_success"],
          cl |-> r.cl, cache |-> r.cache, call |-> tr, enqueued |-> <<>>]

---------------------------------------------------------------------------
(* What the outside world may answer during one fetch: the cache read and write
   failing, the attempt at which the chain connects (0: never), the chain's answer
   to query_map, the simulated value drawn, the broker taking the message. An
   answer that the call cannot come to consult is left at its quiet value. *)

Quiet == [readFail |-> FALSE, writeFail |-> FALSE, k |-> 0,
          chain |-> [kind |-> "raise", v |-> 0], sim |-> SimMin, enqOk |-> TRUE]

FetchAnswers(cl, c, netuid, hotkey, t, e) ==
    LET g == GetClient(cl, e)
        hit == CheckCache(c, CacheKey(netuid, hotkey), t, FALSE).hit
        attempting == ~e.pytest /\ ~g.cl.is_initialized
                      /\ t - g.cl.last_init_attempt >= InitRetryInterval
        ks == IF attempting THEN 0..3 ELSE {0}
        ready(k) == e.pytest \/ g.cl.is_initialized \/ k > 0
        \* query_map raises (as does float() on an answer that is no number,
        \* inside the same try block), returns None, or returns a number
        chains == IF e.pytest THEN {Quiet.chain}
                  ELSE {[kind |-> "raise", v |-> 0], [kind |-> "none", v |-> 0]}
                       \cup {[kind |-> "value", v |-> x] : x \in ChainValues}
        miss(rf) ==
            {[Quiet EXCEPT !.readFail = rf, !.k = k, !.sim = s] :
                k \in {x \in ks : ~ready(x)}, s \in SimValues}
            \cup {[Quiet EXCEPT !.readFail = rf, !.k = k, !.chain = ch, !.writeFail = wf] :
                k \in {x \in ks : ready(x)}, ch \in {x \in chains : x.kind = "value"},
                wf \in BOOLEAN}
            \cup {[Quiet EXCEPT !.readFail = rf, !.k = k, !.chain = ch, !.sim = s,
                                !.writeFail = wf] :
                k \in {x \in ks : ready(x)}, ch \in {x \in chains : x.kind # "value"},
                s \in SimValues, wf \in BOOLEAN}
    IN
    IF g.exc THEN {Quiet}
    ELSE (IF hit THEN {Quiet} ELSE miss(FALSE)) \cup miss(TRUE)

BrokerAnswers(trade) == IF trade THEN BOOLEAN ELSE {TRUE}

---------------------------------------------------------------------------
(* The API process *)


\* netuid as the caller writes it: a number with a leading zero, and no number
NetuidParams == {"018", "abc"}

Idle == [op |-> "none", token |-> NoHeader, netuid |-> PyNone, hotkey |-> PyNone,
         trade |-> FALSE, code |-> 0, body |-> NoBody, call |-> NoTrace,
         enqueued |-> <<>>, cached |-> "", readFail |-> FALSE, header |-> <<>>,
         access_token |-> NoHeader, token_type |-> ""]

NoTasks == <<>>

Init ==
    /\ now = Epoch
    /\ env \in [pytest : BOOLEAN, auth : BOOLEAN, netuidOk : BOOLEAN, keys : {TRUE}]
    /\ started = FALSE
    /\ client = NoClient
    /\ cache = <<>>
    /\ queue = <<>>
    /\ nextId = 1
    /\ resp = Idle
    /\ tasks = NoTasks
    /\ calls = <<>>
    /\ txs = <<>>
    /\ history = <<>>
    /\ issued = {}

\* startup_event: the task running bittensor_client.initialize() builds the client
\* and runs its attempts; a failure stays inside the task
Startup ==
    /\ ~started
    /\ resp = Idle
    /\ started' = TRUE
    /\ LET g == GetClient(client, env) IN
       \E k \in (IF g.exc \/ env.pytest THEN {0} ELSE 0..3) :
          client' = IF g.exc THEN client ELSE Initialize(g.cl, now, env.pytest, k).cl
    /\ resp' = [Idle EXCEPT !.op = "startup"]
    /\ UNCHANGED <<now, env, cache, queue, nextId, tasks, calls, txs, history, issued>>

\* A request the bearer dependency turns away: the handler and its parameters
\* netuid and hotkey never come into play
Rejected(tok, netuid, hotkey, trade) ==
    /\ started
    /\ resp = Idle
    /\ VerifyToken(tok, now, env) # 200
    /\ resp' = [Idle EXCEPT !.op = "dividends", !.token = tok, !.trade = trade,
                            !.code = VerifyToken(tok, now, env)]
    /\ UNCHANGED <<now, env, started, client, cache, queue, nextId, tasks, calls, txs,
                   history, issued>>

\* A request the handler serves
Served(tok, netuid, hotkey, trade) ==
    /\ started
    /\ resp = Idle
    /\ VerifyToken(tok, now, env) = 200
    /\ trade => Len(queue) < MaxQueue
    /\ \E f \in FetchAnswers(client, cache, NetuidInt(netuid), PyStr(hotkey), now, env),
          b \in BrokerAnswers(trade) :
         LET o == [f EXCEPT !.enqOk = b]
             h == Handle(netuid, hotkey, trade, client, cache, now, env, nextId, o)
         IN /\ client' = h.cl
            /\ cache' = h.cache
            /\ queue' = queue \o h.enqueued
            /\ nextId' = nextId + Len(h.enqueued)
            /\ resp' = [Idle EXCEPT !.op = "dividends", !.token = tok,
                           !.netuid = PyStr(netuid), !.hotkey = PyStr(hotkey),
                           !.trade = trade, !.code = h.code, !.body = h.body,
                           !.call = h.call, !.enqueued = h.enqueued,
                           !.cached = RedisGet(cache, h.call.readKey, now),
                           !.readFail = o.readFail]
    /\ UNCHANGED <<now, env, started, tasks, calls, txs, history, issued>>

DividendRequest ==
    \E tok \in {NoHeader, Static("datura"), Static("invalid_token"),
                Jwt(SECRET_KEY, TRUE, Epoch + Step, TRUE), Jwt(SECRET_KEY, FALSE, 0, FALSE),
                Jwt("another key", TRUE, MaxClock, TRUE)},
       netuid \in NetuidParams, hotkey \in {"hkA"}, trade \in BOOLEAN :
        Rejected(tok, netuid, hotkey, trade) \/ Served(tok, netuid, hotkey, trade)

\* get_tao_dividends(netuid, hotkey) called as a function of the module
DirectCall ==
    /\ resp = Idle
    /\ \E a \in {<<PyNone, PyNone>>, <<PyStr("18"), PyStr("hkA")>>,
                 <<PyStr("018"), PyStr("hkA")>>} :
      \E o \in FetchAnswers(client, cache, a[1], a[2], now, env) :
        LET netuid == a[1]
            hotkey == a[2]
            r == GetTaoDividendsFn(client, cache, netuid, hotkey, now, env, o)
        IN
        /\ client' = r.cl
        /\ cache' = r.cache
        /\ resp' = [Idle EXCEPT !.op = "direct", !.netuid = netuid, !.hotkey = hotkey,
                                !.call = Trace(r, ~GetClient(client, env).exc),
                                !.cached = RedisGet(cache, r.readKey, now),
                                !.readFail = o.readFail]
        /\ UNCHANGED <<now, env, started, queue, nextId, tasks, calls, txs, history, issued>>

\* Time passes; redis drops the keys whose time to live is over
Advance ==
    /\ resp = Idle
    /\ now + Step <= MaxClock
    /\ now' = now + Step
    /\ cache' = Unexpired(cache, now')
    /\ UNCHANGED <<env, started, client, queue, nextId, resp, tasks, calls, txs,
                   history, issued>>

\* The answer of the last operation has left the process
Return ==
    /\ resp # Idle
    /\ resp' = Idle
    /\ UNCHANGED <<now, env, started, client, cache, queue, nextId, tasks, calls, txs,
                   history, issued>>

Next == Startup \/ DividendRequest \/ DirectCall \/ Advance \/ Return

Spec == Init /\ [][Next]_vars

---------------------------------------------------------------------------
(* Properties of the API process *)

\* The last operation was a fetch that entered BitensorClient.get_tao_dividends
Fetched == resp.op \in {"direct", "dividends"} /\ resp.call.entered

\* The credential is one the endpoint is documented to accept: a static token,
\* or a JWT that jwt.decode validates (signature and expiry)
TokenValid(tok, t) ==
    \/ tok.kind = "static" /\ tok.s \in VALID_TOKENS
    \/ ~JwtDecode(tok, t).raised

\* C1: get_tao_dividends returns a dividend value and never raises, whatever
\* combination of cache read failure, cache write failure, client that cannot be
\* initialised, raising chain query and empty chain answer it meets; and every
\* request that passes the bearer check is answered 200 with a dividend value.
C1_NeverRaises ==
    /\ Fetched => ~resp.call.raised /\ resp.call.value \in DividendValues
    /\ (resp.op = "dividends" /\ VerifyToken(resp.token, now, env) = 200)
          => resp.code = 200 /\ resp.body.dividend_value \in DividendValues

\* A call whose cache read failed, whose chain query gave no value and whose
\* cache write failed, and which returned the simulated value
C1_Witness ==
    /\ resp.op = "direct"
    /\ resp.readFail
    /\ resp.call.queries = 1
    /\ resp.call.source = "sim"
    /\ resp.call.writes = 1
    /\ resp.call.writeKey \notin DOMAIN cache
    /\ ~resp.call.raised

\* The read at the start of the last fetch found a value under the key it asked for
CacheHeld == Fetched /\ ~resp.readFail /\ resp.cached # ""

\* C2: when the cache holds a value for the call's key, get_tao_dividends
\* returns exactly that value, reads the cache once, and does no client
\* initialisation, no chain query, no simulation and no cache write.
C2_CacheHit ==
    CacheHeld =>
        /\ ~resp.call.raised
        /\ resp.call.value = FloatOfStr(resp.cached)
        /\ StrOfFloat(resp.call.value) = resp.cached
        /\ resp.call.reads = 1
        /\ resp.call.inits = 0
        /\ resp.call.attempts = 0
        /\ resp.call.queries = 0
        /\ resp.call.sims = 0
        /\ resp.call.writes = 0

\* A request served from a cache entry that an earlier call wrote
C2_Witness ==
    /\ resp.op = "dividends"
    /\ CacheHeld
    /\ resp.call.hit
    /\ resp.call.source = "cache"
    /\ resp.body.dividend_value = FloatOfStr(resp.cached)

\* C3: on a cache miss get_tao_dividends reads the cache once and writes it
\* once, and the value written is the value returned, on every miss path (chain
\* value, chain failed or empty, client not initialised). The code's
\* not-initialised path returns a simulated value without writing the cache.
C3_MissWritesOnce ==
    (Fetched /\ ~resp.call.hit) =>
        /\ resp.call.reads = 1
        /\ resp.call.writes = 1
        /\ resp.call.written = StrOfFloat(resp.call.value)

\* C4: a dividend request is served if and only if its bearer token is in the
\* static set or is a JWT that validates against SECRET_KEY and is unexpired (the
\* JWT module being available); any other is answered 403 and causes no cache
\* read, no chain query and no job. The code turns away a valid JWT whose
\* payload is empty.
C4_ServedIffValid ==
    (resp.op = "dividends" /\ env.auth) =>
        /\ resp.code = 200 <=> TokenValid(resp.token, now)
        /\ resp.code # 200 =>
              /\ resp.code = 403
              /\ resp.call = NoTrace
              /\ resp.enqueued = <<>>

\* The last operation was a dividend request that passed the bearer check
ServedRequest == resp.op = "dividends" /\ resp.code = 200

\* C8: a served request with trade=false enqueues nothing and answers
\* trade_triggered=false without task_id; with trade=true it enqueues at most one
\* job, carrying the request's netuid and hotkey, and answers trade_triggered=true
\* with the job's task_id if and only if the enqueue succeeded.
C8_TradeEnqueue ==
    ServedRequest =>
        /\ ~resp.trade =>
              /\ resp.enqueued = <<>>
              /\ ~resp.body.trade_triggered
              /\ resp.body.task_id = 0
        /\ resp.trade =>
              /\ Len(resp.enqueued) <= 1
              /\ resp.body.trade_triggered <=> resp.enqueued # <<>>
              /\ resp.body.task_id # 0 <=> resp.enqueued # <<>>
              /\ resp.enqueued # <<>> =>
                    /\ resp.enqueued[1].netuid = NetuidInt(resp.netuid.s)
                    /\ resp.enqueued[1].hotkey = resp.hotkey.s
                    /\ resp.enqueued[1].id = resp.body.task_id
                    /\ queue[Len(queue)] = resp.enqueued[1]

\* A trade=true request whose job reached the broker
C8_Witness ==
    /\ ServedRequest
    /\ resp.trade
    /\ resp.body.trade_triggered
    /\ resp.body.task_id = 1
    /\ Len(queue) = 1
    /\ queue[1].hotkey = "hkA"

\* C12: every dividend_value returned by get_tao_dividends and by GET
\* /api/v1/tao_dividends is non-negative, whichever source it comes from (cache
\* entry, chain query result, simulation, the endpoint's error default). The code
\* returns and caches float() of the chain's answer unchecked.
C12_NonNegative ==
    /\ Fetched => resp.call.value >= 0
    /\ resp.op = "dividends" => resp.body.dividend_value >= 0

\* C22: in every response of GET /api/v1/tao_dividends, on the success path and
\* on the error path, the netuid field is the netuid query parameter as the
\* caller sent it, the hotkey field is the hotkey parameter, and dividend_value
\* is a float.
C22_EchoesParameters ==
    ServedRequest =>
        /\ resp.body.netuid = resp.netuid.s
        /\ resp.body.hotkey = resp.hotkey.s
        /\ resp.body.dividend_value \in DividendValues
        /\ resp.body.status \in {"success", "partial_success", "simulated"}

\* A success answer to netuid=018: the fetch went to subnet 18, the answer says 018
C22_Witness ==
    /\ ServedRequest
    /\ resp.body.status = "success"
    /\ resp.netuid.s = "018"
    /\ resp.body.netuid = "018"
    /\ resp.call.writeKey = CacheKey(PyInt(18), PyStr("hkA"))

\* C25: whenever GET /api/v1/tao_dividends answers with status 'success' or
\* 'partial_success', the dividend_value was obtained from the chain, directly
\* or through a cache entry written from a chain result; a simulated value is
\* never reported with status 'success' and never served from the cache as if it
\* were a chain value. (The model's simulated values are none of its chain
\* values, so the value of a cache entry tells where it came from.) The handler
\* never reads the client's _last_query_simulated, and the fallback caches the
\* simulated value.
C25_SuccessIsChain ==
    (ServedRequest /\ resp.body.status \in {"success", "partial_success"}) =>
        /\ resp.call.source \in {"chain", "cache"}
        /\ ~resp.call.simulated
        /\ resp.body.dividend_value \in ChainValues
        /\ resp.call.source = "cache" => FloatOfStr(resp.cached) \in ChainValues

\* C26: cache round trip. For every argument pair, netuid None, a numeric
\* string and a non-numeric string included, a value that get_tao_dividends wrote
\* to the cache is found by the next call with the same arguments while the
\* entry is unexpired: the key read at the start of a call is the key written at
\* its end, and no call writes under the key of another subnet than the one
\* asked for. The code reads under the arguments as passed and writes under the
\* arguments after defaults and int().
C26_CacheRoundTrip ==
    (Fetched /\ resp.call.writes >= 1
       /\ RedisGet(cache, resp.call.writeKey, now) = resp.call.written) =>
        /\ resp.call.readKey = resp.call.writeKey
        /\ RedisGet(cache, resp.call.readKey, now) = resp.call.written
        /\ CheckCache(cache, resp.call.readKey, now, FALSE).hit

\* C33: when the dividend fetch itself raises inside the endpoint, the response
\* is still 200 with dividend_value 0.0, status 'simulated' and trade_triggered
\* false, and no job is enqueued even if the request had trade=true.
C33_FetchRaises ==
    (resp.op = "dividends" /\ VerifyToken(resp.token, now, env) = 200
       /\ resp.call.raised) =>
        /\ resp.code = 200
        /\ resp.body.dividend_value = 0
        /\ resp.body.status = "simulated"
        /\ ~resp.body.trade_triggered
        /\ resp.body.task_id = 0
        /\ resp.body.netuid = resp.netuid.s
        /\ resp.body.hotkey = resp.hotkey.s
        /\ resp.enqueued = <<>>

\* A trade=true request whose fetch raised: the client cannot be built
C33_Witness ==
    /\ resp.op = "dividends"
    /\ resp.code = 200
    /\ resp.trade
    /\ resp.call.raised
    /\ ~resp.call.entered
    /\ resp.body.status = "simulated"

---------------------------------------------------------------------------
(* BitensorClient.add_stake and BitensorClient.unstake. The two methods differ
   in the operation's name and the SDK call alone; op is "stake" or "unstake".
   Amounts are in 0.01 TAO. A call runs from its entry to the await of the SDK
   call without giving up the event loop (StakeEnter), and from the SDK call's
   answer through the finally block to its return (StakeLeave). The SDK is
   taken to build the transaction from the wallet as it is handed over. *)

NoFrame == [pc |-> "returned", op |-> "", amount |-> 0, netuid |-> PyNone, hotkey |-> "",
            current_hotkey |-> "", status |-> "", reason |-> ""]

\* The transaction handed to async_subtensor.add_stake / unstake
Tx(op, amount, netuid, hotkey, wallet) ==
    [op |-> op, amount |-> amount, netuid |-> netuid, hotkey |-> hotkey,
     wallet_hotkey |-> wallet]

\* A call that returns before the SDK call
StakeBack(ini, f, status, reason) ==
    [frame |-> [f EXCEPT !.status = status, !.reason = reason], cl |-> ini.cl, tx |-> <<>>]

\* StakeEntered without the test "if amount <= 0"
StakeEnteredNoAmountCheck(ini, f, pytest) ==
    IF ~ini.ok THEN StakeBack(ini, f, "failed", "Bittensor client is not initialized")
    ELSE IF pytest THEN StakeBack(ini, f, "success", "")
    ELSE IF ini.cl.wallet = NoWallet \/ ~ini.cl.async_subtensor
    THEN StakeBack(ini, f, "failed", "AttributeError")
    ELSE [frame |-> [f EXCEPT !.pc = "awaiting", !.current_hotkey = ini.cl.wallet],
          cl |-> [ini.cl EXCEPT !.wallet = f.hotkey],
          tx |-> <<Tx(f.op, f.amount, f.netuid, f.hotkey, f.hotkey)>>]

\* The call from ensure_initialized's answer ini on: not initialised, amount
\* not positive, pytest; then the hotkey is saved, set, and the SDK call made (a
\* wallet or connection of None raises before anything is handed over)
StakeEntered(ini, f, pytest) ==
    IF ~ini.ok THEN StakeBack(ini, f, "failed", "Bittensor client is not initialized")
    ELSE IF f.amount <= 0 THEN StakeBack(ini, f, "skipped", "Amount is zero or negative")
    ELSE IF pytest THEN StakeBack(ini, f, "success", "")
    ELSE IF ini.cl.wallet = NoWallet \/ ~ini.cl.async_subtensor
    THEN StakeBack(ini, f, "failed", "AttributeError")
    ELSE [frame |-> [f EXCEPT !.pc = "awaiting", !.current_hotkey = ini.cl.wallet],
          cl |-> [ini.cl EXCEPT !.wallet = f.hotkey],
          tx |-> <<Tx(f.op, f.amount, f.netuid, f.hotkey, f.hotkey)>>]

StakeEnter(cl, op, amount, netuid, hotkey, t, pytest, k) ==
    StakeEntered(EnsureInitialized(cl, t, pytest, k),
                 [NoFrame EXCEPT !.op = op, !.amount = amount,
                                 !.netuid = IF netuid.t # "none" THEN netuid
                                            ELSE PyInt(DefaultNetuid),
                                 !.hotkey = NormHotkey(hotkey).s],
                 pytest)

\* StakeLeave without "except Exception": the SDK's exception leaves the method
StakeLeaveUncaught(cl, f, ok) ==
    [frame |-> [f EXCEPT !.pc = "returned",
                         !.status = IF ok THEN "success" ELSE "raised",
                         !.reason = ""],
     cl |-> IF f.current_hotkey # f.hotkey THEN [cl EXCEPT !.wallet = f.current_hotkey]
            ELSE cl]

\* The SDK call answers (ok) or raises; finally: "Restore original hotkey if we
\* changed it"; except Exception: "failed"
StakeLeave(cl, f, ok) ==
    [frame |-> [f EXCEPT !.pc = "returned",
                         !.status = IF ok THEN "success" ELSE "failed",
                         !.reason = IF ok THEN "" ELSE "extrinsic failed"],
     cl |-> IF f.current_hotkey # f.hotkey THEN [cl EXCEPT !.wallet = f.current_hotkey]
            ELSE cl]

\* The dict a returned call hands back: status, operation, and "tx_hash" from
\* the return statements of a success, "reason" from all the others
StakeResult(f) ==
    IF f.status = "success"
    THEN [k \in {"status", "tx_hash", "operation"} |->
            IF k = "status" THEN f.status ELSE IF k = "operation" THEN f.op
            ELSE "<tx hash>"]
    ELSE [k \in {"status", "reason", "operation"} |->
            IF k = "status" THEN f.status ELSE IF k = "operation" THEN f.op
            ELSE f.reason]

\* A call run from entry to return with nothing in between
StakeThrough(en, ok) ==
    IF en.frame.pc = "returned" THEN en
    ELSE StakeLeave(en.cl, en.frame, ok) @@ [tx |-> en.tx]

StakeCall(cl, op, amount, netuid, hotkey, t, pytest, k, ok) ==
    StakeThrough(StakeEnter(cl, op, amount, netuid, hotkey, t, pytest, k), ok)

\* The module-level add_stake / unstake: get_client(), then the method
StakeVia(g, op, amount, netuid, hotkey, t, e, k, ok) ==
    IF g.exc THEN [raised |-> TRUE, frame |-> NoFrame, cl |-> g.cl, tx |-> <<>>]
    ELSE [raised |-> FALSE]
         @@ StakeCall(ClientAfterSpawn(g, t, e, k), op, amount, netuid, hotkey, t,
                      e.pytest, k, ok)

StakeFn(cl, op, amount, netuid, hotkey, t, e, k, ok) ==
    StakeVia(GetClient(cl, e), op, amount, netuid, hotkey, t, e, k, ok)

---------------------------------------------------------------------------
(* Concurrent stake calls on one client, on one event loop *)

CallIds == 1..MaxCalls

\* The client of the process before any stake call: built, its initialize() run
InitialClients(pytest) ==
    {Initialize(NewClient(pytest), Epoch, pytest, k).cl : k \in {0, 1}}

\* The wallet's hotkey before any stake call
WalletAtStart == IF env.pytest THEN NoWallet ELSE WalletHotkey

InitStake ==
    /\ now = Epoch
    /\ env \in [pytest : BOOLEAN, auth : {TRUE}, netuidOk : {TRUE}, keys : {TRUE}]
    /\ started = TRUE
    /\ client \in InitialClients(env.pytest)
    /\ cache = <<>>
    /\ queue = <<>>
    /\ nextId = 1
    /\ resp = Idle
    /\ tasks = NoTasks
    /\ calls = <<>>
    /\ txs = <<>>
    /\ history = <<>>
    /\ issued = {}

\* A call starts and runs to its return or to the await of the SDK call
StakeBegin(i, op, amount, hotkey) ==
    /\ i \notin DOMAIN calls
    /\ \A j \in CallIds : j < i => j \in DOMAIN calls
    /\ LET en == StakeEnter(client, op, amount, PyNone, PyStr(hotkey), now, env.pytest, 0) IN
       /\ client' = en.cl
       /\ calls' = calls @@ (i :> en.frame)
       /\ txs' = txs \o en.tx
    /\ UNCHANGED <<now, env, started, cache, queue, nextId, resp, tasks, history, issued>>

\* The SDK call of a waiting call answers or raises, and the call returns
StakeFinish(i, ok) ==
    /\ i \in DOMAIN calls
    /\ calls[i].pc = "awaiting"
    /\ LET lv == StakeLeave(client, calls[i], ok) IN
       /\ client' = lv.cl
       /\ calls' = [calls EXCEPT ![i] = lv.frame]
    /\ UNCHANGED <<now, env, started, cache, queue, nextId, resp, tasks, txs,
                   history, issued>>

NextStake ==
    \/ \E i \in CallIds, op \in {"stake", "unstake"}, amount \in {0, 1}, hotkey \in {"hkA", "hkB"} :
         StakeBegin(i, op, amount, hotkey)
    \/ \E i \in CallIds, ok \in BOOLEAN : StakeFinish(i, ok)

SpecStake == InitStake /\ [][NextStake]_vars

\* The calls made so far all name different hotkeys, and all have returned
DistinctHotkeys ==
    \A i, j \in DOMAIN calls : i # j => calls[i].hotkey # calls[j].hotkey

AllReturned == \A i \in DOMAIN calls : calls[i].pc = "returned"

\* C10: under every interleaving of concurrent add_stake and unstake calls with
\* different hotkey arguments, each transaction is submitted with the wallet's
\* hotkey equal to the hotkey argument of its call, and once all calls have
\* returned the wallet's hotkey is what it was before any of them started. The
\* code restores per call what that call found, so overlapping calls leave the
\* wallet on another call's hotkey.
C10_WalletRestored ==
    DistinctHotkeys =>
        /\ \A n \in 1..Len(txs) : txs[n].wallet_hotkey = txs[n].hotkey
        /\ AllReturned => client.wallet = WalletAtStart

---------------------------------------------------------------------------
(* services/sentiment.py *)


Max(a, b) == IF a >= b THEN a ELSE b
Min(a, b) == IF a <= b THEN a ELSE b
Abs(x) == IF x < 0 THEN -x ELSE x

\* What the sentiment API may do: answer 200 with a number, answer 200 with
\* something int() rejects, answer another status, or fail in transit
SentimentAnswers ==
    {[kind |-> "number", raw |-> r] : r \in {-MaxRaw, -1, 0, 1, MaxRaw}}
    \cup {[kind |-> k, raw |-> 0] : k \in {"unparsable", "non200", "raise"}}

\* analyze_sentiment_text with the range check left out
AnalyzeSentimentTextUnclamped(pytest, a) ==
    IF pytest THEN TestScore
    ELSE IF a.kind = "number" THEN a.raw
    ELSE 0

\* analyze_sentiment_text: 75 under pytest; the number clamped to [-100, 100];
\* 0 for every failure
AnalyzeSentimentText(pytest, a) ==
    IF pytest THEN TestScore
    ELSE IF a.kind = "number" THEN Max(ScoreMin, Min(ScoreMax, a.raw))
    ELSE 0

\* What the tweet search may do
SearchAnswers == {"tweets", "empty", "non200", "raise"}

\* search_twitter: two canned tweets under pytest; the tweets of a 200 answer;
\* none for another status; a failure in transit is raised to the caller
SearchTwitter(pytest, a) ==
    IF pytest THEN [raised |-> FALSE, tweets |-> 2]
    ELSE IF a = "raise" THEN [raised |-> TRUE, tweets |-> 0]
    ELSE IF a = "tweets" THEN [raised |-> FALSE, tweets |-> 1]
    ELSE [raised |-> FALSE, tweets |-> 0]

\* The sentiment step's answer once the search has answered; failed: the search
\* or the analysis reported a failure that was answered with 0
SentimentOf(found, pytest, o) ==
    IF found.raised
    THEN [raised |-> TRUE, score |-> 0, searches |-> 1, analyses |-> 0, failed |-> TRUE]
    ELSE IF found.tweets = 0
    THEN [raised |-> FALSE, score |-> 0, searches |-> 1, analyses |-> 0,
          failed |-> ~pytest /\ o.search = "non200"]
    ELSE [raised |-> FALSE, score |-> AnalyzeSentimentText(pytest, o.senti),
          searches |-> 1, analyses |-> 1,
          failed |-> ~pytest /\ o.senti.kind # "number"]

\* analyze_twitter_sentiment: no tweets give 0 without asking the model
AnalyzeTwitterSentiment(pytest, o) == SentimentOf(SearchTwitter(pytest, o.search), pytest, o)

---------------------------------------------------------------------------
(* celery_worker.py *)

\* What one run of the job's body did and returned
NoRun == [ran |-> FALSE, status |-> "", scored |-> FALSE, score |-> 0, searches |-> 0,
          analyses |-> 0, adds |-> 0, unstakes |-> 0, amount |-> 0, stake |-> "",
          stepFailed |-> FALSE]

\* "Ensure netuid is properly typed"
JobNetuid(netuid) == IF netuid.t = "str" THEN NetuidInt(netuid.s) ELSE netuid

\* The body's result once the stake call r has answered or raised
JobStaked(run, r) ==
    IF r.raised
    THEN [run |-> [run EXCEPT !.status = "error", !.stepFailed = TRUE], cl |-> r.cl,
          tx |-> r.tx]
    ELSE [run |-> [run EXCEPT !.stake = r.frame.status,
                              !.status = IF r.frame.status = "success" THEN "success"
                                         ELSE "error",
                              !.stepFailed = @ \/ r.frame.status = "failed"],
          cl |-> r.cl, tx |-> r.tx]

\* The body from the sentiment's answer sn on: an exception ends as an error
\* result, 0 as 'neutral', a positive score in add_stake and a negative one in
\* unstake, of abs(score) * 0.01 TAO
JobScored(sn, run, netuid, hotkey, cl, t, e, o) ==
    IF sn.raised
    THEN [run |-> [run EXCEPT !.searches = sn.searches, !.analyses = sn.analyses,
                              !.status = "error", !.stepFailed = TRUE],
          cl |-> cl, tx |-> <<>>]
    ELSE IF sn.score = 0
    THEN [run |-> [run EXCEPT !.searches = sn.searches, !.analyses = sn.analyses,
                              !.scored = TRUE, !.score = sn.score, !.status = "neutral",
                              !.stepFailed = sn.failed],
          cl |-> cl, tx |-> <<>>]
    ELSE JobStaked([run EXCEPT !.searches = sn.searches, !.analyses = sn.analyses,
                               !.scored = TRUE, !.score = sn.score,
                               !.stepFailed = sn.failed,
                               !.amount = Abs(sn.score),
                               !.adds = IF sn.score > 0 THEN 1 ELSE 0,
                               !.unstakes = IF sn.score > 0 THEN 0 ELSE 1],
                   StakeFn(cl, IF sn.score > 0 THEN "stake" ELSE "unstake", Abs(sn.score),
                           JobNetuid(netuid), PyStr(hotkey), t, e, o.k, o.stakeOk))

\* process_stake_operation_async: the API keys, then the sentiment, then the stake
ProcessStakeOperationAsync(netuid, hotkey, cl, t, e, o) ==
    IF ~e.keys
    THEN [run |-> [NoRun EXCEPT !.ran = TRUE, !.status = "error"], cl |-> cl, tx |-> <<>>]
    ELSE JobScored(AnalyzeTwitterSentiment(e.pytest, o), [NoRun EXCEPT !.ran = TRUE],
                   netuid, hotkey, cl, t, e, o)

\* The job as the worker tracks it
NewTask(t) ==
    [state |-> "PENDING", enqueued_at |-> t, runs |-> 0, first_start |-> 0, delays |-> <<>>,
     last |-> NoRun, staked |-> 0]

\* self.retry without the max_retries check
RetryUnbounded(m, t) ==
    [again |-> TRUE, countdown |-> 2 ^ m.retries,
     msg |-> [m EXCEPT !.retries = @ + 1, !.eta = t + 2 ^ m.retries]]

\* self.retry(exc=e, countdown=2 ** self.request.retries) under max_retries=3:
\* the message goes back with its expires unchanged, or the exception is raised
Retry(m, t) ==
    IF m.retries + 1 > MaxRetries
    THEN [again |-> FALSE, countdown |-> 0, msg |-> m]
    ELSE [again |-> TRUE, countdown |-> 2 ^ m.retries,
          msg |-> [m EXCEPT !.retries = @ + 1, !.eta = t + 2 ^ m.retries]]

\* The task after the except branch's self.retry
JobRetried(began, re) ==
    [task |-> [began EXCEPT !.state = IF re.again THEN "RETRY" ELSE "FAILURE",
                            !.delays = IF re.again THEN Append(@, re.countdown) ELSE @,
                            !.last = NoRun],
     requeue |-> IF re.again THEN <<re.msg>> ELSE <<>>]

\* The task after the body has returned its result
JobReturned(began, b) ==
    [task |-> [began EXCEPT !.state = "SUCCESS", !.last = b.run,
                            !.staked = @ + Len(b.tx) * b.run.amount],
     requeue |-> <<>>, cl |-> b.cl, tx |-> b.tx]

\* One execution of process_stake_operation. Setting up the event loop may
\* raise (o.loopFail), and only that reaches the task's except branch.
ProcessStakeOperation(m, task, cl, t, e, o) ==
    IF o.loopFail
    THEN JobRetried([task EXCEPT !.runs = @ + 1,
                                 !.first_start = IF task.runs = 0 THEN t ELSE @],
                    Retry(m, t))
         @@ [cl |-> cl, tx |-> <<>>]
    ELSE JobReturned([task EXCEPT !.runs = @ + 1,
                                  !.first_start = IF task.runs = 0 THEN t ELSE @],
                     ProcessStakeOperationAsync(m.netuid, m.hotkey, cl, t, e, o))

\* The worker drops a message whose expires lies behind
Expired(m, t) == m.hasExpires /\ t > m.expires

\* What the outside world may answer during one execution
QuietRun == [loopFail |-> FALSE, search |-> "empty", senti |-> [kind |-> "non200", raw |-> 0],
             k |-> 0, stakeOk |-> TRUE]

RunAnswers(cl, t, e) ==
    LET attempting == ~e.pytest /\ ~cl.is_initialized
                      /\ t - cl.last_init_attempt >= InitRetryInterval
        ks == IF attempting THEN {0, 1} ELSE {0}
    IN
    {[QuietRun EXCEPT !.loopFail = TRUE]}
    \cup (IF ~e.keys THEN {QuietRun}
          ELSE IF e.pytest THEN {[QuietRun EXCEPT !.search = "tweets"]}
          ELSE {[QuietRun EXCEPT !.search = a] : a \in SearchAnswers \ {"tweets"}}
               \cup {[QuietRun EXCEPT !.search = "tweets", !.senti = a] :
                       a \in {x \in SentimentAnswers :
                                AnalyzeSentimentText(FALSE, x) = 0}}
               \cup {[QuietRun EXCEPT !.search = "tweets", !.senti = a, !.k = k,
                                      !.stakeOk = ok] :
                       a \in {x \in SentimentAnswers :
                                AnalyzeSentimentText(FALSE, x) # 0},
                       k \in ks, ok \in BOOLEAN})


\* The worker process after init_worker: its client built, initialize() run
InitWorker ==
    /\ now = Epoch
    /\ env \in [pytest : BOOLEAN, auth : {TRUE}, netuidOk : {TRUE}, keys : BOOLEAN]
    /\ started = TRUE
    /\ client \in InitialClients(env.pytest)
    /\ cache = <<>>
    /\ queue = <<>>
    /\ nextId = 1
    /\ resp = Idle
    /\ tasks = NoTasks
    /\ calls = <<>>
    /\ txs = <<>>
    /\ history = <<>>
    /\ issued = {}

\* The endpoint's trade branch sends a job
Enqueue(netuid, hotkey) ==
    /\ nextId <= MaxJobs
    /\ queue' = Append(queue, ApplyAsync(NetuidInt(netuid), hotkey, now, nextId))
    /\ tasks' = tasks @@ (nextId :> NewTask(now))
    /\ nextId' = nextId + 1
    /\ UNCHANGED <<now, env, started, client, cache, resp, calls, txs, history, issued>>

Without(q, i) == SubSeq(q, 1, i - 1) \o SubSeq(q, i + 1, Len(q))

\* The worker's state after an execution r of message i
Executed(i, r) ==
    /\ tasks' = [tasks EXCEPT ![queue[i].id] = r.task]
    /\ queue' = Without(queue, i) \o r.requeue
    /\ client' = r.cl
    /\ txs' = txs \o r.tx

\* The worker executes a message that is due and not expired
Execute(i) ==
    /\ i \in DOMAIN queue
    /\ queue[i].eta <= now
    /\ ~Expired(queue[i], now)
    /\ \E o \in RunAnswers(client, now, env) :
         Executed(i, ProcessStakeOperation(queue[i], tasks[queue[i].id], client, now, env, o))
    /\ UNCHANGED <<now, env, started, cache, nextId, resp, calls, history, issued>>

\* The worker drops an expired message: the task is revoked, nothing runs
Revoke(i) ==
    /\ i \in DOMAIN queue
    /\ Expired(queue[i], now)
    /\ tasks' = [tasks EXCEPT ![queue[i].id].state = "REVOKED"]
    /\ queue' = Without(queue, i)
    /\ UNCHANGED <<now, env, started, client, cache, nextId, resp, calls, txs,
                   history, issued>>

\* The instants at which the worker's choices change: a retry falls due, a
\* message reaches its expiry, a message is past its expiry; and a longer stretch
Instants ==
    {queue[i].eta : i \in DOMAIN queue}
    \cup {queue[i].expires : i \in DOMAIN queue}
    \cup {queue[i].expires + 1 : i \in DOMAIN queue}
    \cup {now + Step}

\* Time passes until the next such instant
Tick(t) ==
    /\ t > now
    /\ t <= Epoch + WorkerHorizon
    /\ now' = t
    /\ UNCHANGED <<env, started, client, cache, queue, nextId, resp, tasks, calls, txs,
                   history, issued>>

NextWorker ==
    \/ \E netuid \in {"18", "abc"}, hotkey \in {"hkA"} : Enqueue(netuid, hotkey)
    \/ \E i \in 1..MaxJobs : Execute(i)
    \/ \E i \in 1..MaxJobs : Revoke(i)
    \/ \E t \in Instants : Tick(t)

SpecWorker == InitWorker /\ [][NextWorker]_vars

---------------------------------------------------------------------------
(* Properties of the worker *)

\* C5: when a job fails (the tweet search, the sentiment analysis or the stake
\* step raises or reports failure) the job is retried, and once its retries are
\* used up it is reported as failed. The code ends such a run with a result
\* dict, which Celery records as a success, and retries nothing.
C5_FailedJobRetried ==
    \A id \in DOMAIN tasks :
        tasks[id].last.stepFailed =>
            /\ tasks[id].state \in {"RETRY", "FAILURE"}
            /\ tasks[id].state = "FAILURE" => tasks[id].runs = MaxRetries + 1

\* C6: one enqueued job is executed at most 4 times, the k-th retry is scheduled
\* 2^(k-1) seconds after the failure (1, 2, 4), at most one message of the job
\* is in the broker, and a job that has failed for good is not executed again.
C6_BoundedRetries ==
    \A id \in DOMAIN tasks :
        /\ tasks[id].runs <= 4
        /\ Len(tasks[id].delays) <= 3
        /\ \A k \in 1..Len(tasks[id].delays) : tasks[id].delays[k] = 2 ^ (k - 1)
        /\ Cardinality({i \in DOMAIN queue : queue[i].id = id}) <= 1
        /\ tasks[id].state = "RETRY" => Len(tasks[id].delays) = tasks[id].runs
        /\ tasks[id].state = "FAILURE" =>
              /\ tasks[id].runs = 4
              /\ \A i \in DOMAIN queue : queue[i].id # id

\* A job that ran four times, with the delays 1, 2 and 4 between, and failed
C6_Witness ==
    \E id \in DOMAIN tasks :
        /\ tasks[id].runs = 4
        /\ tasks[id].state = "FAILURE"
        /\ tasks[id].delays = <<1, 2, 4>>

\* C7: a job that has not started within 60 seconds of being enqueued is
\* dropped and never executes: every job that ran started within the 60 seconds,
\* a message waiting longer can only be dropped, and a job that never ran called
\* no sentiment service and staked nothing.
C7_ExpiredNeverRuns ==
    /\ \A id \in DOMAIN tasks :
          /\ tasks[id].runs > 0 => tasks[id].first_start <= tasks[id].enqueued_at + 60
          /\ tasks[id].runs = 0 => tasks[id].last = NoRun /\ tasks[id].staked = 0
    /\ \A i \in DOMAIN queue :
          (tasks[queue[i].id].runs = 0 /\ now > tasks[queue[i].id].enqueued_at + 60)
              => Expired(queue[i], now)

\* A job dropped after more than 60 seconds in the queue, never run
C7_Witness ==
    \E id \in DOMAIN tasks :
        /\ tasks[id].state = "REVOKED"
        /\ tasks[id].runs = 0
        /\ now > tasks[id].enqueued_at + 60
        /\ txs = <<>>

\* C9: in a run that obtained a sentiment score s, s > 0 makes exactly one
\* add_stake call and no unstake call, s < 0 exactly one unstake call and no
\* add_stake call, s = 0 neither (status 'neutral'); the amount is |s| * 0.01 TAO
\* and s lies in [-100, 100], so a job stakes or unstakes at most 1 TAO.
C9_SentimentDecides ==
    /\ \A id \in DOMAIN tasks :
          LET r == tasks[id].last IN
          /\ r.scored =>
                /\ r.score \in -100..100
                /\ r.score > 0 => r.adds = 1 /\ r.unstakes = 0 /\ r.amount = r.score
                /\ r.score < 0 => r.adds = 0 /\ r.unstakes = 1 /\ r.amount = -r.score
                /\ r.score = 0 => r.adds = 0 /\ r.unstakes = 0 /\ r.status = "neutral"
          /\ ~r.scored => r.adds = 0 /\ r.unstakes = 0
          /\ r.amount <= 100
          /\ tasks[id].staked <= 100
    /\ \A n \in 1..Len(txs) : txs[n].amount >= 1 /\ txs[n].amount <= 100
    /\ Len(txs) <= Cardinality(DOMAIN tasks)

\* A job whose score -100 (the model said less) made one unstake of 1 TAO
C9_Witness ==
    \E id \in DOMAIN tasks :
        /\ tasks[id].last.score = -100
        /\ tasks[id].last.unstakes = 1
        /\ tasks[id].last.adds = 0
        /\ tasks[id].last.stake = "success"
        /\ \E n \in 1..Len(txs) : txs[n].op = "unstake" /\ txs[n].amount = 100

---------------------------------------------------------------------------
(* The functions of the module bittensor_client and GET /health, called in any
   order on one event loop, from a process that has not built its client yet.
   nextId numbers the BitensorClient objects: the object a call works on is the
   one get_client() hands to it. A stake call is in calls from its entry on. *)

MaxObjects == 2       \* BitensorClient objects the model lets a process build
MaxOpsCalls == 1      \* stake calls in flight at a time
MaxOpsTxs == 1        \* transactions the model lets the stake calls hand over


\* add_stake / stake_tao call client.add_stake, unstake / unstake_tao client.unstake
StakeOpOf(fn) == IF fn \in {"add_stake", "stake_tao"} THEN "stake" ELSE "unstake"

\* The object get_client() returned: the newest one
ObjectOf(g, id) == IF g.exc THEN 0 ELSE IF g.built THEN id ELSE id - 1

NoHealth == [status |-> "", bittensor_client |-> "", auth |-> "", error |-> ""]

\* The frame of a wrapper's call: the method's frame, with the wrapper called,
\* the object it took, whether it raised, and the transactions it handed over
OpsFrame(fn, g, id, f, sent) ==
    [pc |-> f.pc, op |-> f.op, amount |-> f.amount, netuid |-> f.netuid,
     hotkey |-> f.hotkey, current_hotkey |-> f.current_hotkey, status |-> f.status,
     reason |-> f.reason, fn |-> fn, obj |-> ObjectOf(g, id), raised |-> g.exc,
     sent |-> sent]

OpsIdle == [op |-> "none", obj |-> 0, built |-> FALSE, raised |-> FALSE, code |-> 0,
            initialized |-> FALSE, health |-> NoHealth,
            frame |-> OpsFrame("", GetClient(NoClient, [pytest |-> FALSE, netuidOk |-> FALSE]),
                               1, NoFrame, 0)]

\* What a call that went through get_client() leaves to be observed
OpsDone(op, g, id, raised) ==
    [OpsIdle EXCEPT !.op = op, !.obj = ObjectOf(g, id), !.built = g.built,
                    !.raised = raised]

\* A stake call that has returned
OpsStakeDone(f, built) ==
    [OpsIdle EXCEPT !.op = "stake", !.obj = f.obj, !.built = built, !.raised = f.raised,
                    !.frame = f]

InitOps ==
    /\ now = Epoch
    /\ env \in [pytest : BOOLEAN, auth : BOOLEAN, netuidOk : BOOLEAN, keys : {TRUE}]
    /\ started = TRUE
    /\ client = NoClient
    /\ cache = <<>>
    /\ queue = <<>>
    /\ nextId = 1
    /\ resp = OpsIdle
    /\ tasks = NoTasks
    /\ calls = <<>>
    /\ txs = <<>>
    /\ history = <<>>
    /\ issued = {}

\* get_client() called on its own
OpsGetClient ==
    /\ nextId <= MaxObjects
    /\ LET g == GetClient(client, env) IN
       /\ client' = g.cl
       /\ nextId' = IF g.built THEN nextId + 1 ELSE nextId
       /\ resp' = OpsDone("get_client", g, nextId, g.exc)
    /\ UNCHANGED <<now, env, started, cache, queue, tasks, calls, txs, history, issued>>

\* The attempt at which the chain connects matters to a client that will try
Connects(g, t, e) ==
    IF ~g.exc /\ ~e.pytest /\ ~g.cl.is_initialized
       /\ t - g.cl.last_init_attempt >= InitRetryInterval
    THEN 0..1 ELSE {0}

\* initialize(): get_client(), then the method
OpsInitialize ==
    /\ nextId <= MaxObjects
    /\ \E k \in Connects(GetClient(client, env), now, env) :
        LET g == GetClient(client, env) IN
        /\ client' = IF g.exc THEN g.cl
                     ELSE Initialize(ClientAfterSpawn(g, now, env, k), now, env.pytest, k).cl
        /\ nextId' = IF g.built THEN nextId + 1 ELSE nextId
        /\ resp' = OpsDone("initialize", g, nextId, g.exc)
    /\ UNCHANGED <<now, env, started, cache, queue, tasks, calls, txs, history, issued>>

\* get_tao_dividends(): get_client(), then the method
OpsDividends ==
    /\ nextId <= MaxObjects
    /\ \E o \in FetchAnswers(client, cache, PyNone, PyNone, now, env) :
        LET g == GetClient(client, env)
            r == GetTaoDividendsFn(client, cache, PyNone, PyNone, now, env, o)
        IN
        /\ client' = r.cl
        /\ cache' = r.cache
        /\ nextId' = IF g.built THEN nextId + 1 ELSE nextId
        /\ resp' = OpsDone("get_tao_dividends", g, nextId, r.raised)
    /\ UNCHANGED <<now, env, started, queue, tasks, calls, txs, history, issued>>

\* The wrapper from get_client()'s answer g on, up to its return or its SDK await
OpsStakeEnter(fn, amount, g, t, e, k) ==
    IF g.exc
    THEN [frame |-> [NoFrame EXCEPT !.op = StakeOpOf(fn), !.amount = amount],
          cl |-> g.cl, tx |-> <<>>]
    ELSE StakeEnter(ClientAfterSpawn(g, t, e, k), StakeOpOf(fn), amount, PyInt(18),
                    PyStr("hkA"), t, e.pytest, k)

\* The call waits for the SDK, or has returned
OpsStakeBegun(i, g, en, f) ==
    /\ client' = en.cl
    /\ txs' = txs \o en.tx
    /\ nextId' = IF g.built THEN nextId + 1 ELSE nextId
    /\ IF f.pc = "awaiting"
       THEN calls' = calls @@ (i :> f) /\ resp' = resp
       ELSE calls' = calls
            /\ resp' = [OpsStakeDone(f, g.built) EXCEPT
                           !.initialized = en.cl.is_initialized]

OpsStakeVia(i, fn, g, en) ==
    OpsStakeBegun(i, g, en, OpsFrame(fn, g, nextId, en.frame, Len(en.tx)))

\* add_stake / unstake / stake_tao / unstake_tao starts
OpsStakeBegin(i, fn, amount) ==
    /\ nextId <= MaxObjects
    /\ Len(txs) < MaxOpsTxs
    /\ i \notin DOMAIN calls
    /\ \E k \in Connects(GetClient(client, env), now, env) :
         OpsStakeVia(i, fn, GetClient(client, env),
                     OpsStakeEnter(fn, amount, GetClient(client, env), now, env, k))
    /\ UNCHANGED <<now, env, started, cache, queue, tasks, history, issued>>

\* The SDK call of a waiting stake call answers or raises, and the call returns
OpsStakeFinish(i, ok) ==
    /\ i \in DOMAIN calls
    /\ LET lv == StakeLeave(client, calls[i], ok) IN
       /\ client' = lv.cl
       /\ calls' = [j \in DOMAIN calls \ {i} |-> calls[j]]
       /\ resp' = [OpsStakeDone(lv.frame, FALSE) EXCEPT
                      !.initialized = lv.cl.is_initialized]
    /\ UNCHANGED <<now, env, started, cache, queue, nextId, tasks, txs, history, issued>>

\* health_check: an exception of get_client() leaves the handler (500); the
\* answer is built from the client as get_client() returned it, and the task
\* started for a client that is not initialised runs afterwards
HealthCheck(g, e, t, k) ==
    IF g.exc
    THEN [code |-> 500, initialized |-> FALSE, body |-> NoHealth, cl |-> g.cl]
    ELSE [code |-> 200,
          initialized |-> g.cl.is_initialized,
          body |-> [status |-> IF g.cl.is_initialized THEN "healthy" ELSE "degraded",
                    bittensor_client |-> IF g.cl.is_initialized THEN "initialized"
                                         ELSE "not_initialized",
                    auth |-> IF e.auth THEN "jwt" ELSE "legacy",
                    error |-> g.cl.initialization_error],
          cl |-> IF g.cl.is_initialized THEN g.cl
                 ELSE Initialize(ClientAfterSpawn(g, t, e, k), t, e.pytest, k).cl]

OpsHealthDone(g, h) ==
    /\ client' = h.cl
    /\ nextId' = IF g.built THEN nextId + 1 ELSE nextId
    /\ resp' = [OpsDone("health", g, nextId, g.exc) EXCEPT
                   !.code = h.code, !.initialized = h.initialized, !.health = h.body]

\* GET /health, which takes no credential
OpsHealth ==
    /\ nextId <= MaxObjects
    /\ \E k \in Connects(GetClient(client, env), now, env) :
         OpsHealthDone(GetClient(client, env),
                       HealthCheck(GetClient(client, env), env, now, k))
    /\ UNCHANGED <<now, env, started, cache, queue, tasks, calls, txs, history, issued>>

\* Time passes
OpsElapse ==
    /\ now + Step <= MaxClock
    /\ now' = now + Step
    /\ cache' = Unexpired(cache, now')
    /\ UNCHANGED <<env, started, client, queue, nextId, resp, tasks, calls, txs,
                   history, issued>>

NextOps ==
    \/ OpsGetClient
    \/ OpsInitialize
    \/ OpsDividends
    \/ \E i \in 1..MaxOpsCalls, fn \in {"add_stake", "unstake", "stake_tao", "unstake_tao"},
          amount \in {-1, 0, 75} :
         OpsStakeBegin(i, fn, amount)
    \/ \E i \in 1..MaxOpsCalls, ok \in BOOLEAN : OpsStakeFinish(i, ok)
    \/ OpsHealth
    \/ OpsElapse

SpecOps == InitOps /\ [][NextOps]_vars

\* C11: a process holds at most one BitensorClient: after any sequence and
\* interleaving of get_client, initialize, get_tao_dividends, add_stake, unstake,
\* stake_tao and unstake_tao, every call that got a client worked on the same
\* object, which the first such call built.
C11_OneClient ==
    /\ nextId <= 2
    /\ client.exists <=> nextId = 2
    /\ (resp.op # "none" /\ ~resp.raised) => resp.obj = 1
    /\ \A i \in DOMAIN calls : calls[i].obj = 1
    /\ resp.built => resp.obj = 1

\* A stake call in flight on the object it built, and a get_tao_dividends that
\* ran meanwhile on that same object
C11_Witness ==
    /\ resp.op = "get_tao_dividends"
    /\ ~resp.built /\ ~resp.raised
    /\ 1 \in DOMAIN calls
    /\ calls[1].pc = "awaiting"
    /\ calls[1].fn = "unstake_tao"
    /\ calls[1].obj = resp.obj

\* The last operation was a stake call that returned a dict
StakeReturned == resp.op = "stake" /\ ~resp.raised

\* C17 as stated: for every amount <= 0, add_stake and unstake (and the wrappers
\* stake_tao and unstake_tao) return 'skipped' with a reason containing 'Amount
\* is zero or negative' and submit no transaction, in every client state,
\* including a client that is not initialised.
C17_NonPositiveSkipped ==
    (StakeReturned /\ resp.frame.amount <= 0) =>
        /\ StakeResult(resp.frame)["status"] = "skipped"
        /\ StakeResult(resp.frame)["reason"] = "Amount is zero or negative"
        /\ resp.frame.sent = 0

\* C17 as the code has it: for every amount <= 0 no transaction is submitted;
\* the call returns 'skipped' with the reason 'Amount is zero or negative' when
\* the client is initialised at the amount check (always so under pytest), and
\* 'failed' with the reason 'Bittensor client is not initialized' when
\* ensure_initialized could not initialise it.
C17_NonPositiveNoTx ==
    (StakeReturned /\ resp.frame.amount <= 0) =>
        /\ resp.frame.sent = 0
        /\ (env.pytest \/ resp.initialized) =>
              /\ StakeResult(resp.frame)["status"] = "skipped"
              /\ StakeResult(resp.frame)["reason"] = "Amount is zero or negative"
        /\ ~(env.pytest \/ resp.initialized) =>
              /\ StakeResult(resp.frame)["status"] = "failed"
              /\ StakeResult(resp.frame)["reason"] = "Bittensor client is not initialized"

\* unstake_tao with amount 0 skipped on a client that a call before had initialised
C17_Witness ==
    /\ StakeReturned
    /\ ~env.pytest
    /\ resp.frame.fn = "unstake_tao"
    /\ resp.frame.amount = 0
    /\ resp.frame.status = "skipped"
    /\ resp.initialized
    /\ ~resp.built

\* C18: a successful stake_tao / unstake_tao(netuid, hotkey, amount) with
\* amount > 0 returns status 'success', operation 'stake' / 'unstake', and an
\* amount field equal to the requested amount. The dict the code returns has no
\* amount key.
C18_SuccessCarriesAmount ==
    (/\ StakeReturned
     /\ resp.frame.fn \in {"stake_tao", "unstake_tao"}
     /\ resp.frame.amount > 0
     /\ resp.frame.status = "success") =>
        /\ StakeResult(resp.frame)["operation"] = StakeOpOf(resp.frame.fn)
        /\ "amount" \in DOMAIN StakeResult(resp.frame)
        /\ StakeResult(resp.frame)["amount"] = resp.frame.amount

\* C19: every add_stake / unstake result has a status in {success, failed,
\* skipped} and the operation kind of the function called; it carries a tx hash
\* exactly when the status is 'success' and a reason otherwise; a client that
\* cannot be initialised yields 'failed' with the reason 'Bittensor client is not
\* initialized' and no transaction; an exception of the SDK call is returned as
\* 'failed', never raised.
C19_ResultShape ==
    StakeReturned =>
        /\ StakeResult(resp.frame)["status"] \in {"success", "failed", "skipped"}
        /\ StakeResult(resp.frame)["operation"] = StakeOpOf(resp.frame.fn)
        /\ "tx_hash" \in DOMAIN StakeResult(resp.frame) <=> resp.frame.status = "success"
        /\ "reason" \in DOMAIN StakeResult(resp.frame) <=> resp.frame.status # "success"
        /\ resp.frame.status = "success" => (env.pytest \/ resp.frame.sent = 1)
        /\ ~(env.pytest \/ resp.initialized) =>
              /\ resp.frame.status = "failed"
              /\ resp.frame.reason = "Bittensor client is not initialized"
              /\ resp.frame.sent = 0

\* An add_stake whose SDK call raised: returned as 'failed' with a reason
C19_Witness ==
    /\ StakeReturned
    /\ resp.frame.fn = "add_stake"
    /\ resp.frame.sent = 1
    /\ resp.frame.status = "failed"
    /\ resp.frame.reason = "extrinsic failed"

\* C20: GET /health always answers 200, without authentication; status is
\* 'healthy' and bittensor_client 'initialized' exactly when the client's
\* is_initialized is true at request time, otherwise 'degraded' and
\* 'not_initialized'; the auth field is 'jwt' or 'legacy'. The handler calls
\* get_client() outside any try, so a constructor that raises is answered 500.
C20_HealthAlways200 ==
    resp.op = "health" =>
        /\ resp.code = 200
        /\ resp.initialized =>
              /\ resp.health.status = "healthy"
              /\ resp.health.bittensor_client = "initialized"
        /\ ~resp.initialized =>
              /\ resp.health.status = "degraded"
              /\ resp.health.bittensor_client = "not_initialized"
        /\ resp.health.auth = (IF env.auth THEN "jwt" ELSE "legacy")

---------------------------------------------------------------------------
(* services/db_service.py: DatabaseService on the table dividend_history. The
   session is the caller's; it holds nothing uncommitted when a method is called.
   nextId is the sequence behind the column id. *)

DefaultLimit == 100

MaxRows == 2          \* INSERT statements that reach the database


\* The row the INSERT's values make, with id from the sequence and created_at
\* from the server's now()
Row(id, netuid, hotkey, dividend, op, amount, score, t) ==
    [id |-> id, netuid |-> netuid, hotkey |-> hotkey, dividend |-> dividend,
     created_at |-> t, stake_operation |-> op, stake_amount |-> amount,
     sentiment_score |-> score]

\* The columns declared nullable=False
NotNullHolds(row) ==
    row.netuid.t # "none" /\ row.hotkey.t # "none" /\ row.dividend.t # "none"

\* An INSERT that takes the place of the row of the same subnet and hotkey
InsertReplacing(rows, row) ==
    IF \E i \in 1..Len(rows) : rows[i].netuid = row.netuid /\ rows[i].hotkey = row.hotkey
    THEN [i \in 1..Len(rows) |->
            IF rows[i].netuid = row.netuid /\ rows[i].hotkey = row.hotkey
            THEN row ELSE rows[i]]
    ELSE Append(rows, row)

\* insert(DividendHistory).values(...)
Insert(rows, row) == Append(rows, row)

\* log_dividend_query: execute, fetchone, commit; any exception rolls back and is
\* answered with status "error". The sequence moves whenever the INSERT is run.
LogDividendQuery(rows, id, row, a) ==
    IF a = "unreachable"
    THEN [status |-> "error", record_id |-> 0, rows |-> rows, seq |-> id]
    ELSE IF ~NotNullHolds(row) \/ a = "commit fails"
    THEN [status |-> "error", record_id |-> 0, rows |-> rows, seq |-> id + 1]
    ELSE [status |-> "success", record_id |-> id, rows |-> Insert(rows, row),
          seq |-> id + 1]

\* log_sentiment_analysis only writes to the log of the process
LogSentimentAnalysis(rows, netuid, hotkey, score, tweets) ==
    [status |-> "success", rows |-> rows]

\* "if netuid:" / "if hotkey:" : None and "" select every row
Selected(rows, netuid, hotkey) ==
    {i \in 1..Len(rows) :
        /\ (netuid.t = "none" \/ netuid.s = "" \/ rows[i].netuid = netuid)
        /\ (hotkey.t = "none" \/ hotkey.s = "" \/ rows[i].hotkey = hotkey)}

\* ORDER BY created_at DESC: every order of the selected rows with no later row
\* behind an earlier one; rows of one instant come in the order the database likes
DescOrders(rows, S) ==
    {f \in [1..Cardinality(S) -> S] :
        /\ \A i, j \in 1..Cardinality(S) : i # j => f[i] # f[j]
        /\ \A i, j \in 1..Cardinality(S) :
              i < j => rows[f[i]].created_at >= rows[f[j]].created_at}

\* get_dividend_history: the first limit rows of the order, as dictionaries; []
\* when the query raises
GetDividendHistory(rows, order, limit, a) ==
    IF a = "unreachable" THEN <<>>
    ELSE [i \in 1..(IF Len(order) < limit THEN Len(order) ELSE limit) |-> rows[order[i]]]

DbIdle == [op |-> "none", status |-> "", record_id |-> 0, records |-> <<>>]

InitDb ==
    /\ now = Epoch
    /\ env \in [pytest : {FALSE}, auth : {TRUE}, netuidOk : {TRUE}, keys : {TRUE}]
    /\ started = TRUE
    /\ client = NoClient
    /\ cache = <<>>
    /\ queue = <<>>
    /\ nextId = 1
    /\ resp = DbIdle
    /\ tasks = NoTasks
    /\ calls = <<>>
    /\ txs = <<>>
    /\ history = <<>>
    /\ issued = {}

DbLogged(r) ==
    /\ history' = r.rows
    /\ nextId' = r.seq
    /\ resp' = [DbIdle EXCEPT !.op = "log_dividend_query", !.status = r.status,
                              !.record_id = r.record_id]

DbLogDividendQuery ==
    /\ nextId <= MaxRows
    /\ \E netuid \in {PyStr("18")}, hotkey \in {PyStr("hkA"), PyStr("hkB"), PyNone},
          op \in {PyNone, PyStr("stake")}, a \in {"unreachable", "ok", "commit fails"} :
         DbLogged(LogDividendQuery(history, nextId,
                     Row(nextId, netuid, hotkey, PyInt(SimMin), op,
                         IF op.t = "none" THEN PyNone ELSE PyInt(TestScore),
                         IF op.t = "none" THEN PyNone ELSE PyInt(TestScore), now),
                     a))
    /\ UNCHANGED <<now, env, started, client, cache, queue, tasks, calls, txs, issued>>

DbLogSentimentAnalysis ==
    /\ \E netuid \in {PyStr("18")}, hotkey \in {PyStr("hkA"), PyStr("hkB")} :
         LET r == LogSentimentAnalysis(history, netuid, hotkey, TestScore, 1) IN
         /\ history' = r.rows
         /\ resp' = [DbIdle EXCEPT !.op = "log_sentiment_analysis", !.status = r.status]
    /\ UNCHANGED <<now, env, started, client, cache, queue, nextId, tasks, calls, txs, issued>>

DbGetDividendHistory ==
    /\ \E netuid \in {PyNone, PyStr("18")}, hotkey \in {PyNone, PyStr(""), PyStr("hkA")},
          limit \in {1, DefaultLimit}, a \in {"unreachable", "ok"} :
         \E order \in DescOrders(history, Selected(history, netuid, hotkey)) :
            resp' = [DbIdle EXCEPT !.op = "get_dividend_history",
                                   !.records = GetDividendHistory(history, order, limit, a)]
    /\ UNCHANGED <<now, env, started, client, cache, queue, nextId, tasks, calls, txs,
                   history, issued>>

DbElapse ==
    /\ now + Step <= MaxClock
    /\ now' = now + Step
    /\ UNCHANGED <<env, started, client, cache, queue, nextId, resp, tasks, calls, txs,
                   history, issued>>

NextDb == DbLogDividendQuery \/ DbLogSentimentAnalysis \/ DbGetDividendHistory \/ DbElapse

SpecDb == InitDb /\ [][NextDb]_vars

\* C13: the dividend history is append-only: no DatabaseService operation
\* updates or deletes a row; a successful log_dividend_query adds exactly one row
\* and leaves every row written before unchanged; get_dividend_history and
\* log_sentiment_analysis change no row.
C13_AppendOnly ==
    [][/\ Len(history') >= Len(history)
       /\ \A i \in 1..Len(history) : history'[i] = history[i]
       /\ (resp' # resp /\ resp'.op = "log_dividend_query" /\ resp'.status = "success")
             => /\ Len(history') = Len(history) + 1
                /\ history'[Len(history')].id = resp'.record_id
                /\ \A i \in 1..Len(history) : history[i].id # resp'.record_id
       /\ resp'.op \in {"get_dividend_history", "log_sentiment_analysis"}
             => history' = history]_vars

\* Two rows logged, the second after a failed INSERT, and a history query that
\* returned both, newest first
C13_Witness ==
    /\ Len(history) = 2
    /\ history[1].created_at < history[2].created_at
    /\ resp.op = "get_dividend_history"
    /\ resp.records = <<history[2], history[1]>>

---------------------------------------------------------------------------
(* auth.py and POST /token. An Authorization header is the sequence of its
   pieces, each a piece of text or a JWT; Bearer is the text "Bearer ". The
   pieces the model sends hold no "Bearer " inside or across them. *)

AccessTokenExpire == 1800
ApiTokenExpire == 2592000

AuthStep == 900       \* the clock of the token endpoint's process advances by this
MaxAuthClock == 2800  \* and stops here
MaxIssued == 2        \* JWTs handed out


\* create_access_token signing with a key of its own
CreateAccessTokenOtherKey(sub, scopes, t, delta) ==
    [kind |-> "jwt", s |-> "", key |-> "another key", hasExp |-> TRUE,
     exp |-> t + (IF delta # 0 THEN delta ELSE AccessTokenExpire), sub |-> sub,
     scopes |-> scopes]

\* create_access_token(data, expires_delta): data with exp added, signed with
\* SECRET_KEY; a delta of 0 stands for None (and for the falsy timedelta(0))
CreateAccessToken(sub, scopes, t, delta) ==
    [kind |-> "jwt", s |-> "", key |-> SECRET_KEY, hasExp |-> TRUE,
     exp |-> t + (IF delta # 0 THEN delta ELSE AccessTokenExpire), sub |-> sub,
     scopes |-> scopes]

\* create_api_token(username, scopes)
CreateApiToken(scopes, t) == CreateAccessToken(TRUE, scopes, t, ApiTokenExpire)

\* The first of the required scopes that the token's scopes lack, "" when none:
\* the for loop of verify_token_has_scope
RECURSIVE MissingScope(_, _)
MissingScope(required, scopes) ==
    IF required = <<>> THEN ""
    ELSE IF Head(required) \notin scopes THEN Head(required)
    ELSE MissingScope(Tail(required), scopes)

\* verify_token_has_scope looking only at the first required scope
VerifyTokenHasScopeFirst(required, tok, t) ==
    IF JwtDecode(tok, t).raised THEN [code |-> 401, value |-> FALSE, missing |-> ""]
    ELSE IF required # <<>> /\ Head(required) \notin tok.scopes
    THEN [code |-> 403, value |-> FALSE, missing |-> Head(required)]
    ELSE [code |-> 200, value |-> TRUE, missing |-> ""]

\* verify_token_has_scope(required_scopes, token): True, or the HTTPException
\* raised (401 for a JWTError, 403 naming the first missing scope)
VerifyTokenHasScope(required, tok, t) ==
    IF JwtDecode(tok, t).raised THEN [code |-> 401, value |-> FALSE, missing |-> ""]
    ELSE IF MissingScope(required, tok.scopes) # ""
    THEN [code |-> 403, value |-> FALSE, missing |-> MissingScope(required, tok.scopes)]
    ELSE [code |-> 200, value |-> TRUE, missing |-> ""]


\* get_current_user(token): the User of the token's sub and scopes claims, or the
\* 401 raised for a JWTError and for a payload without sub. username stands for
\* the sub claim as the token record does.
GetCurrentUser(tok, t) ==
    IF JwtDecode(tok, t).raised \/ "sub" \notin JwtDecode(tok, t).payload
    THEN [code |-> 401, user |-> [username |-> FALSE, scopes |-> {}]]
    ELSE [code |-> 200, user |-> [username |-> tok.sub, scopes |-> tok.scopes]]

Bearer == Static("Bearer ")

\* auth_header and auth_header.startswith("Bearer ")
StartsWithBearer(h) == Len(h) > 0 /\ h[1] = Bearer

NotBearer(p) == p # Bearer

\* The string a sequence of pieces spells
RECURSIVE Spelt(_)
Spelt(h) ==
    IF Len(h) = 0 THEN Static("")
    ELSE IF Len(h) = 1 THEN h[1]
    ELSE Static(h[1].s \o Spelt(Tail(h)).s)

\* auth_header.replace("Bearer ", ""): every occurrence goes
ReplaceBearer(h) == Spelt(SelectSeq(h, NotBearer))

NoToken == [code |-> 0, access_token |-> NoHeader, token_type |-> ""]

\* get_token
GetToken(h, t, e) ==
    IF ~e.auth THEN [NoToken EXCEPT !.code = 501]
    ELSE IF ~StartsWithBearer(h) THEN [NoToken EXCEPT !.code = 401]
    ELSE LET token == ReplaceBearer(h) IN
         IF token.kind = "static" /\ token.s \in VALID_TOKENS
         THEN [code |-> 200,
               access_token |-> CreateAccessToken(TRUE, {"read", "stake", "admin"}, t, 0),
               token_type |-> "bearer"]
         ELSE [NoToken EXCEPT !.code = 401]

\* The headers sent to POST /token
AuthHeaders ==
    {<<>>,
     <<Static("Basic "), Static("dXNlcjpwdw==")>>,
     <<Bearer, Static("datura")>>,
     <<Bearer, Static("invalid_token")>>,
     <<Bearer, Bearer, Static("datura")>>}
    \cup {<<Bearer, i.tok>> : i \in issued}

InitAuth ==
    /\ now = Epoch
    /\ env \in [pytest : {FALSE}, auth : BOOLEAN, netuidOk : {TRUE}, keys : {TRUE}]
    /\ started = TRUE
    /\ client = NoClient
    /\ cache = <<>>
    /\ queue = <<>>
    /\ nextId = 1
    /\ resp = Idle
    /\ tasks = NoTasks
    /\ calls = <<>>
    /\ txs = <<>>
    /\ history = <<>>
    /\ issued = {}

PostTokenDone(h, r) ==
    /\ resp' = [Idle EXCEPT !.op = "token", !.header = h, !.code = r.code,
                            !.access_token = r.access_token, !.token_type = r.token_type]
    /\ issued' = IF r.code = 200
                 THEN issued \cup {[tok |-> r.access_token, by |-> "token", at |-> now]}
                 ELSE issued

\* POST /token
PostToken ==
    /\ resp = Idle
    /\ Cardinality(issued) < MaxIssued
    /\ now <= MaxAuthClock
    /\ \E h \in AuthHeaders : PostTokenDone(h, GetToken(h, now, env))
    /\ UNCHANGED <<now, env, started, client, cache, queue, nextId, tasks, calls, txs,
                   history>>

\* The operator hands out a token made by create_api_token
IssueApiToken ==
    /\ resp = Idle
    /\ env.auth
    /\ Cardinality(issued) < MaxIssued
    /\ now <= MaxAuthClock
    /\ \E scopes \in {{"read"}, {"read", "stake"}} :
         issued' = issued \cup {[tok |-> CreateApiToken(scopes, now), by |-> "api",
                                 at |-> now]}
    /\ UNCHANGED <<now, env, started, client, cache, queue, nextId, resp, tasks, calls,
                   txs, history>>

\* A request the handler serves, while redis answers and the chain does not
AuthServed(tok, trade) ==
    /\ resp = Idle
    /\ VerifyToken(tok, now, env) = 200
    /\ trade => Len(queue) < MaxQueue
    /\ \E b \in BrokerAnswers(trade) :
         LET o == [Quiet EXCEPT !.enqOk = b]
             h == Handle("18", "hkA", trade, client, cache, now, env, nextId, o)
         IN /\ client' = h.cl
            /\ cache' = h.cache
            /\ queue' = queue \o h.enqueued
            /\ nextId' = nextId + Len(h.enqueued)
            /\ resp' = [Idle EXCEPT !.op = "dividends", !.token = tok,
                           !.netuid = PyStr("18"), !.hotkey = PyStr("hkA"),
                           !.trade = trade, !.code = h.code, !.body = h.body,
                           !.call = h.call, !.enqueued = h.enqueued,
                           !.cached = RedisGet(cache, h.call.readKey, now)]
    /\ UNCHANGED <<now, env, started, tasks, calls, txs, history, issued>>

\* GET /api/v1/tao_dividends with one of the credentials
AuthRequest ==
    \E tok \in {NoHeader, Static("datura"), Static("invalid_token")}
                  \cup {i.tok : i \in issued},
       trade \in BOOLEAN :
        Rejected(tok, "18", "hkA", trade) \/ AuthServed(tok, trade)

\* The strings handed to the functions of auth.py: a legacy token, a JWT of
\* another signer, a JWT without claims, one with scopes and no sub, and the JWTs
\* handed out
AuthStrings ==
    {Static("datura"), Jwt("another key", TRUE, MaxAuthClock, TRUE),
     Jwt(SECRET_KEY, FALSE, 0, FALSE), CreateAccessToken(FALSE, {"read"}, Epoch, 0)}
    \cup {i.tok : i \in issued}

\* verify_token_has_scope called with a list of required scopes. It reads
\* nothing but the token and the clock, as get_current_user does, and the model
\* calls the two before the process has served a dividend request.
AuthVerifyScope ==
    /\ resp = Idle
    /\ env.auth
    /\ client = NoClient
    /\ \E tok \in AuthStrings,
          required \in {<<>>, <<"read">>, <<"stake">>, <<"read", "stake">>,
                        <<"read", "write">>} :
         resp' = [op |-> "verify_token_has_scope", token |-> tok, required |-> required,
                  result |-> VerifyTokenHasScope(required, tok, now)]
    /\ UNCHANGED <<now, env, started, client, cache, queue, nextId, tasks, calls, txs,
                   history, issued>>

\* get_current_user called as the dependency of a route
AuthCurrentUser ==
    /\ resp = Idle
    /\ env.auth
    /\ client = NoClient
    /\ \E tok \in AuthStrings :
         resp' = [op |-> "get_current_user", token |-> tok,
                  result |-> GetCurrentUser(tok, now)]
    /\ UNCHANGED <<now, env, started, client, cache, queue, nextId, tasks, calls, txs,
                   history, issued>>

\* Time passes: by a step of the clock, or up to the instant at which an API
\* token handed out reaches its expiry, or just past it
AuthElapse ==
    /\ resp = Idle
    /\ LET api == {i.tok.exp : i \in {x \in issued : x.by = "api"}}
           instants == api \cup {t + 1 : t \in api}
       IN
       \E t \in {now + AuthStep} \cup instants :
          /\ t > now
          /\ t <= MaxAuthClock \/ t \in instants
          /\ now' = t
    /\ cache' = Unexpired(cache, now')
    /\ UNCHANGED <<env, started, client, queue, nextId, resp, tasks, calls, txs, history,
                   issued>>

NextAuth ==
    \/ PostToken
    \/ IssueApiToken
    \/ AuthRequest
    \/ AuthVerifyScope
    \/ AuthCurrentUser
    \/ AuthElapse
    \/ Return

SpecAuth == InitAuth /\ [][NextAuth]_vars

\* The header is "Bearer " followed by a member of the static token set
BearerOfStatic(h) ==
    /\ StartsWithBearer(h)
    /\ Spelt(Tail(h)).kind = "static"
    /\ Spelt(Tail(h)).s \in VALID_TOKENS

\* C14: POST /token returns a JWT (token_type 'bearer', a non-empty
\* access_token) if and only if the Authorization header is 'Bearer ' followed by a
\* member of the static token set; a missing header, another scheme, an unknown
\* token and a JWT minted before are answered 401 without a token, and every
\* request 501 when the JWT module is unavailable. The code removes every
\* "Bearer " of the header before it looks the token up.
C14_TokenIffStatic ==
    resp.op = "token" =>
        /\ ~env.auth => resp.code = 501 /\ resp.access_token = NoHeader
        /\ env.auth =>
              /\ resp.code = 200 <=> BearerOfStatic(resp.header)
              /\ resp.code = 200 =>
                    /\ resp.token_type = "bearer"
                    /\ resp.access_token.kind = "jwt"
              /\ resp.code # 200 => resp.code = 401 /\ resp.access_token = NoHeader

\* The tokens POST /token has handed out
Minted == {i.tok : i \in {x \in issued : x.by = "token"}}

\* C15: every access_token returned by POST /token is accepted by verify_token
\* on GET /api/v1/tao_dividends for as long as it is unexpired.
C15_RoundTrip ==
    /\ \A j \in Minted : j.exp >= now => VerifyToken(j, now, env) = 200
    /\ (resp.op = "dividends" /\ resp.token \in Minted /\ resp.token.exp >= now)
          => resp.code = 200
    /\ (resp.op = "token" /\ resp.code = 200)
          => /\ resp.access_token \in Minted
             /\ resp.access_token.exp > now

\* A dividend request served on a minted token at the last instant of its life
C15_Witness ==
    /\ resp.op = "dividends"
    /\ resp.token \in Minted
    /\ resp.token.exp = now
    /\ now = Epoch + AccessTokenExpire
    /\ resp.code = 200

\* C16: a request authenticated with a JWT whose scopes do not include 'stake'
\* can read dividends but cannot cause a stake job to be enqueued with
\* trade=true. verify_token reads no scope.
C16_StakeScope ==
    (resp.op = "dividends" /\ resp.token.kind = "jwt" /\ "stake" \notin resp.token.scopes) =>
        /\ resp.code = 200 <=> ~JwtDecode(resp.token, now).raised
        /\ resp.enqueued = <<>>
        /\ ~resp.body.trade_triggered

\* The string is a JWT signed with SECRET_KEY whose exp, if any, has not passed
ValidJwt(tok, t) == tok.kind = "jwt" /\ tok.key = SECRET_KEY /\ (tok.hasExp => t <= tok.exp)

\* The scopes of a list
ScopesOf(required) == {required[i] : i \in DOMAIN required}

\* C23: verify_token_has_scope(required_scopes, token) returns True exactly when
\* the token is a valid unexpired JWT whose scopes contain every required scope;
\* it raises 403 when the token is valid but lacks a required scope and 401 when
\* the token is invalid or expired. get_current_user raises 401 for an invalid
\* token and for a token without a sub claim, and otherwise returns a User
\* carrying the token's sub and scopes.
C23_ScopeChecks ==
    /\ resp.op = "verify_token_has_scope" =>
          /\ resp.result.value <=>
                (ValidJwt(resp.token, now) /\ ScopesOf(resp.required) \subseteq resp.token.scopes)
          /\ resp.result.value <=> resp.result.code = 200
          /\ resp.result.code = 403 <=>
                (ValidJwt(resp.token, now)
                   /\ ~(ScopesOf(resp.required) \subseteq resp.token.scopes))
          /\ resp.result.code = 401 <=> ~ValidJwt(resp.token, now)
          /\ resp.result.code = 403 =>
                resp.result.missing \in ScopesOf(resp.required) \ resp.token.scopes
    /\ resp.op = "get_current_user" =>
          /\ resp.result.code = 401 <=> (~ValidJwt(resp.token, now) \/ ~resp.token.sub)
          /\ resp.result.code # 401 =>
                /\ resp.result.code = 200
                /\ resp.result.user.username = resp.token.sub
                /\ resp.result.user.scopes = resp.token.scopes

\* A read-only API token asked for read and stake is refused with 403 for the
\* second scope of the list
C23_Witness ==
    /\ resp.op = "verify_token_has_scope"
    /\ resp.token \in {i.tok : i \in {x \in issued : x.by = "api"}}
    /\ resp.token.scopes = {"read"}
    /\ resp.required = <<"read", "stake">>
    /\ resp.result.code = 403
    /\ resp.result.missing = "stake"

\* C24: a JWT is accepted only until its expiry: a token of create_access_token
\* without an explicit delta (as POST /token mints it) expires
\* ACCESS_TOKEN_EXPIRE_MINUTES after it was issued, a token of create_api_token 30
\* days after, and from then on a request presenting it is rejected with 403
\* (unless the same string is a static token) and the handler does not run.
C24_AcceptedUntilExpiry ==
    /\ \A i \in issued :
          /\ i.tok.exp = i.at + (IF i.by = "token" THEN AccessTokenExpire ELSE ApiTokenExpire)
          /\ VerifyToken(i.tok, now, env) = 200 <=> now <= i.tok.exp
          /\ now > i.tok.exp => VerifyToken(i.tok, now, env) = 403
    /\ (resp.op = "dividends" /\ resp.token.kind = "jwt") =>
          /\ resp.code = 200 => (resp.token.hasExp => now <= resp.token.exp)
          /\ (resp.token.hasExp /\ now > resp.token.exp) =>
                /\ resp.code = 403
                /\ resp.call = NoTrace
                /\ resp.enqueued = <<>>

\* A request presenting an API token one second after its thirty days is
\* turned away
C24_Witness ==
    /\ resp.op = "dividends"
    /\ \E i \in issued :
          /\ i.by = "api"
          /\ i.tok = resp.token
          /\ now = i.at + ApiTokenExpire + 1
    /\ resp.code = 403

---------------------------------------------------------------------------
(* services/sentiment.py called on its own: analyze_sentiment_text and
   analyze_twitter_sentiment against every answer of the two remote APIs *)

\* What the sentiment API may answer to one call: every number the model may
\* write, and the three failures. Under pytest the API is not asked.
SentimentInputs(pytest) ==
    IF pytest THEN {QuietRun.senti}
    ELSE {[kind |-> "number", raw |-> r] : r \in -MaxRaw..MaxRaw}
         \cup {[kind |-> k, raw |-> 0] : k \in {"unparsable", "non200", "raise"}}

InitSentiment ==
    /\ now = Epoch
    /\ env \in [pytest : BOOLEAN, auth : {TRUE}, netuidOk : {TRUE}, keys : {TRUE}]
    /\ started = TRUE
    /\ client = NoClient
    /\ cache = <<>>
    /\ queue = <<>>
    /\ nextId = 1
    /\ resp = Idle
    /\ tasks = NoTasks
    /\ calls = <<>>
    /\ txs = <<>>
    /\ history = <<>>
    /\ issued = {}

\* analyze_sentiment_text(text, api_key)
SentimentText ==
    /\ resp = Idle
    /\ \E a \in SentimentInputs(env.pytest) :
         resp' = [op |-> "analyze_sentiment_text", search |-> QuietRun.search, senti |-> a,
                  raised |-> FALSE, score |-> AnalyzeSentimentText(env.pytest, a),
                  analyses |-> 1]
    /\ UNCHANGED <<now, env, started, client, cache, queue, nextId, tasks, calls, txs,
                   history, issued>>

\* The answer of analyze_twitter_sentiment as the caller sees it
SentimentAnswered(o, r) ==
    resp' = [op |-> "analyze_twitter_sentiment", search |-> o.search, senti |-> o.senti,
             raised |-> r.raised, score |-> r.score, analyses |-> r.analyses]

\* analyze_twitter_sentiment(search_query, datura_api_key, chutes_api_key); the
\* sentiment API is asked only about tweets that were found
SentimentTwitter ==
    /\ resp = Idle
    /\ \E s \in (IF env.pytest THEN {QuietRun.search} ELSE SearchAnswers) :
       \E a \in (IF s = "tweets" THEN SentimentInputs(env.pytest) ELSE {QuietRun.senti}) :
         SentimentAnswered([QuietRun EXCEPT !.search = s, !.senti = a],
                           AnalyzeTwitterSentiment(env.pytest,
                                [QuietRun EXCEPT !.search = s, !.senti = a]))
    /\ UNCHANGED <<now, env, started, client, cache, queue, nextId, tasks, calls, txs,
                   history, issued>>

NextSentiment == SentimentText \/ SentimentTwitter \/ Return

SpecSentiment == InitSentiment /\ [][NextSentiment]_vars

\* The last operation was a call of one of the two sentiment functions
SentimentCalled == resp.op \in {"analyze_sentiment_text", "analyze_twitter_sentiment"}

\* The sentiment API was asked during the last call
SentimentAsked == SentimentCalled /\ ~env.pytest /\ resp.analyses = 1

\* C21: analyze_twitter_sentiment and analyze_sentiment_text always return an
\* integer in [-100, 100]; a model answer outside the range is clamped to the
\* nearer bound; an empty tweet list, a non-200 answer of the sentiment API, an
\* unparsable answer and an exception during analysis each yield 0. In the code a
\* failure of the tweet search in transit leaves analyze_twitter_sentiment as an
\* exception.
C21_ScoreInRange ==
    SentimentCalled =>
        /\ ~resp.raised
        /\ resp.score \in ScoreMin..ScoreMax
        /\ (SentimentAsked /\ resp.senti.kind = "number") =>
              resp.score = (IF resp.senti.raw > ScoreMax THEN ScoreMax
                            ELSE IF resp.senti.raw < ScoreMin THEN ScoreMin
                            ELSE resp.senti.raw)
        /\ (SentimentAsked /\ resp.senti.kind # "number") => resp.score = 0
        /\ (~env.pytest /\ resp.op = "analyze_twitter_sentiment"
              /\ resp.search = "empty") => resp.score = 0

---------------------------------------------------------------------------
(* BitensorClient.initialize step by step. A call runs up to its next await
   in one step: the await of get_current_block() in a connection attempt, which
   the chain may answer at any later time, and the asyncio.sleep between two
   attempts, which ends when it is due. Calls of initialize() come from the
   constructor's task, from startup_event, from the task GET /health starts and
   from ensure_initialized() in a dividend or stake call; what these callers do
   once initialize() has returned does not touch the fields it works on. calls
   holds the calls that are inside their attempts. *)

MaxInitCalls == 2     \* calls of initialize() inside their attempts at a time
InitHorizon == 63     \* the clock runs from Epoch this far

\* The frame of a call of initialize(): when it began, last_init_attempt and
\* is_initialized as it found them, the attempt it is in, the connections it
\* opened, the wait_time of each sleep and the time each sleep took, when its
\* sleep is due, its return value, and the message of its last failure
NoInitFrame == [pc |-> "returned", began |-> 0, prev |-> 0, wasInit |-> FALSE, attempt |-> 0,
                opened |-> 0, waits |-> <<>>, slept |-> <<>>, wake |-> 0, result |-> FALSE,
                msg |-> ""]

\* The try block of attempt n up to its await: the wallet, AsyncSubtensor(network="test")
AttemptBegin(cl, f, n) ==
    [cl |-> [cl EXCEPT !.wallet = WalletHotkey, !.async_subtensor = TRUE],
     frame |-> [f EXCEPT !.pc = "awaiting", !.attempt = n, !.opened = @ + 1]]

\* initialize() without the test "current_time - last_init_attempt < init_retry_interval"
InitializeEnterNoLimit(cl, t, pytest) ==
    IF cl.is_initialized \/ pytest
    THEN [cl |-> cl,
          frame |-> [NoInitFrame EXCEPT !.began = t, !.prev = cl.last_init_attempt,
                                        !.wasInit = cl.is_initialized, !.result = TRUE]]
    ELSE AttemptBegin([cl EXCEPT !.last_init_attempt = t],
                      [NoInitFrame EXCEPT !.began = t, !.prev = cl.last_init_attempt,
                                          !.wasInit = cl.is_initialized], 1)

\* initialize() storing current_time in last_init_attempt before the test of
\* the retry interval: a call that is turned away pushes the next attempt back
InitializeEnterStamps(cl, t, pytest) ==
    IF cl.is_initialized \/ pytest
    THEN [cl |-> cl,
          frame |-> [NoInitFrame EXCEPT !.began = t, !.prev = cl.last_init_attempt,
                                        !.wasInit = cl.is_initialized, !.result = TRUE]]
    ELSE IF t - cl.last_init_attempt < InitRetryInterval
    THEN [cl |-> [cl EXCEPT !.last_init_attempt = t],
          frame |-> [NoInitFrame EXCEPT !.began = t, !.prev = cl.last_init_attempt,
                                        !.wasInit = cl.is_initialized]]
    ELSE AttemptBegin([cl EXCEPT !.last_init_attempt = t],
                      [NoInitFrame EXCEPT !.began = t, !.prev = cl.last_init_attempt,
                                          !.wasInit = cl.is_initialized], 1)

\* initialize() from its entry to its first await or its early return
InitializeEnter(cl, t, pytest) ==
    IF cl.is_initialized \/ pytest
    THEN [cl |-> cl,
          frame |-> [NoInitFrame EXCEPT !.began = t, !.prev = cl.last_init_attempt,
                                        !.wasInit = cl.is_initialized, !.result = TRUE]]
    ELSE IF t - cl.last_init_attempt < InitRetryInterval
    THEN [cl |-> cl,
          frame |-> [NoInitFrame EXCEPT !.began = t, !.prev = cl.last_init_attempt,
                                        !.wasInit = cl.is_initialized]]
    ELSE AttemptBegin([cl EXCEPT !.last_init_attempt = t],
                      [NoInitFrame EXCEPT !.began = t, !.prev = cl.last_init_attempt,
                                          !.wasInit = cl.is_initialized], 1)

\* The rest of an attempt with "if attempt < 3" left out: every failure sleeps
\* and tries again
InitializeAnsweredUnbounded(cl, f, ok, msg, t) ==
    IF ok
    THEN [cl |-> [cl EXCEPT !.is_initialized = TRUE, !.initialization_error = ""],
          frame |-> [f EXCEPT !.pc = "returned", !.result = TRUE]]
    ELSE [cl |-> [cl EXCEPT !.initialization_error = msg],
          frame |-> [f EXCEPT !.pc = "sleeping", !.msg = msg,
                              !.waits = Append(@, 2 ^ (f.attempt - 1)),
                              !.wake = t + 2 ^ (f.attempt - 1)]]

\* The rest of an attempt once get_current_block() has answered (ok) or raised
\* (msg): success returns True; a failure stores str(e), sleeps 2 ** (attempt - 1)
\* seconds before the next attempt, and after the third returns False
InitializeAnswered(cl, f, ok, msg, t) ==
    IF ok
    THEN [cl |-> [cl EXCEPT !.is_initialized = TRUE, !.initialization_error = ""],
          frame |-> [f EXCEPT !.pc = "returned", !.result = TRUE]]
    ELSE IF f.attempt < 3
    THEN [cl |-> [cl EXCEPT !.initialization_error = msg],
          frame |-> [f EXCEPT !.pc = "sleeping", !.msg = msg,
                              !.waits = Append(@, 2 ^ (f.attempt - 1)),
                              !.wake = t + 2 ^ (f.attempt - 1)]]
    ELSE [cl |-> [cl EXCEPT !.initialization_error = msg],
          frame |-> [f EXCEPT !.pc = "returned", !.msg = msg]]

\* The sleep is over: the next pass of the for loop
InitializeWoken(cl, f, t) ==
    AttemptBegin(cl, [f EXCEPT !.slept = Append(@, t - (f.wake - f.waits[Len(f.waits)]))],
                 f.attempt + 1)

InitIdle == [op |-> "none", frame |-> NoInitFrame, health |-> NoHealth]

\* A process whose client has been built
InitInit ==
    /\ now = Epoch
    /\ env \in [pytest : BOOLEAN, auth : {TRUE}, netuidOk : {TRUE}, keys : {TRUE}]
    /\ started = TRUE
    /\ client = NewClient(env.pytest)
    /\ cache = <<>>
    /\ queue = <<>>
    /\ nextId = 1
    /\ resp = InitIdle
    /\ tasks = NoTasks
    /\ calls = <<>>
    /\ txs = <<>>
    /\ history = <<>>
    /\ issued = {}

\* The call is inside its attempts, or has returned
InitStepped(i, r) ==
    /\ client' = r.cl
    /\ IF r.frame.pc = "returned"
       THEN /\ calls' = [j \in DOMAIN calls \ {i} |-> calls[j]]
            /\ resp' = [InitIdle EXCEPT !.op = "initialize", !.frame = r.frame]
       ELSE /\ calls' = [j \in DOMAIN calls \cup {i} |-> IF j = i THEN r.frame ELSE calls[j]]
            /\ resp' = resp

\* A call of initialize() begins
InitBegin(i) ==
    /\ i \notin DOMAIN calls
    /\ InitStepped(i, InitializeEnter(client, now, env.pytest))
    /\ UNCHANGED <<now, env, started, cache, queue, nextId, tasks, txs, history, issued>>

\* get_current_block() answers or raises
InitAnswer(i, ok, msg) ==
    /\ i \in DOMAIN calls
    /\ calls[i].pc = "awaiting"
    /\ InitStepped(i, InitializeAnswered(client, calls[i], ok, msg, now))
    /\ UNCHANGED <<now, env, started, cache, queue, nextId, tasks, txs, history, issued>>

\* asyncio.sleep(wait_time) returns
InitWake(i) ==
    /\ i \in DOMAIN calls
    /\ calls[i].pc = "sleeping"
    /\ calls[i].wake = now
    /\ InitStepped(i, InitializeWoken(client, calls[i], now))
    /\ UNCHANGED <<now, env, started, cache, queue, nextId, tasks, txs, history, issued>>

\* GET /health reads the client; the task it starts for a client that is not
\* initialised is one of the calls that begin
InitHealth ==
    /\ resp' = [InitIdle EXCEPT
                   !.op = "health",
                   !.health = HealthCheck(GetClient(client, env), env, now, 0).body]
    /\ UNCHANGED <<now, env, started, client, cache, queue, nextId, tasks, calls, txs,
                   history, issued>>

\* Time passes up to the next instant at which something changes: a sleep is
\* due, the rate limit of initialize() ends; no sleep is left behind
InitTick(t) ==
    /\ t > now
    /\ t <= Epoch + InitHorizon
    /\ \A i \in DOMAIN calls : calls[i].pc = "sleeping" => calls[i].wake >= t
    /\ now' = t
    /\ UNCHANGED <<env, started, client, cache, queue, nextId, resp, tasks, calls, txs,
                   history, issued>>

NextInit ==
    \/ \E i \in 1..MaxInitCalls : InitBegin(i)
    \/ \E i \in 1..MaxInitCalls, ok \in BOOLEAN, msg \in {"timeout", "refused"} :
         InitAnswer(i, ok, IF ok THEN "" ELSE msg)
    \/ \E i \in 1..MaxInitCalls : InitWake(i)
    \/ InitHealth
    \/ \E t \in {calls[i].wake : i \in DOMAIN calls}
                \cup {client.last_init_attempt + InitRetryInterval} : InitTick(t)

SpecInit == InitInit /\ [][NextInit]_vars

\* C27: under every interleaving of the startup task, health checks, dividend
\* requests and stake calls on one event loop, at most one attempt sequence of
\* the client is in progress at any time; a call of initialize() made while one
\* is in progress returns False without opening a second chain connection. The
\* code knows a sequence only by the time it began.
C27_OneSequence ==
    /\ Cardinality(DOMAIN calls) <= 1
    /\ (resp.op = "initialize" /\ ~resp.frame.wasInit /\ ~env.pytest
          /\ \E i \in DOMAIN calls : calls[i].began <= resp.frame.began)
         => (~resp.frame.result /\ resp.frame.opened = 0)

\* The last operation was a call of initialize() that went into its attempts
Attempted == resp.op = "initialize" /\ resp.frame.opened > 0

\* No attempt sequence has run since the one that returned last
NothingSince == calls = <<>> /\ client.last_init_attempt = resp.frame.began

\* C28: one initialize() call that is not short-circuited makes at most 3
\* connection attempts, waits 2^(attempt-1) seconds after a failed attempt
\* before the next one, stops at the first success, returns True if and only
\* if an attempt succeeded, and returns False after the third failure with
\* initialization_error set to the last failure's message.
C28_ThreeAttempts ==
    /\ \A i \in DOMAIN calls :
          /\ calls[i].attempt \in 1..3
          /\ calls[i].opened = calls[i].attempt
    /\ Attempted =>
          /\ resp.frame.opened \in 1..3
          /\ resp.frame.opened = resp.frame.attempt
          /\ Len(resp.frame.waits) = resp.frame.attempt - 1
          /\ \A n \in DOMAIN resp.frame.waits : resp.frame.waits[n] = 2 ^ (n - 1)
          /\ resp.frame.slept = resp.frame.waits
          /\ resp.frame.result =>
                /\ client.is_initialized
                /\ resp.frame.msg = "" <=> resp.frame.attempt = 1
          /\ ~resp.frame.result =>
                /\ resp.frame.attempt = 3
                /\ resp.frame.msg # ""
                /\ NothingSince => client.initialization_error = resp.frame.msg

\* A call whose third attempt succeeded, after sleeps of 1 and 2 seconds
C28_Witness ==
    /\ Attempted
    /\ resp.frame.result
    /\ resp.frame.opened = 3
    /\ resp.frame.slept = <<1, 2>>
    /\ now = resp.frame.began + 3
    /\ NothingSince

\* A call that gave up after its third failure
C28_GaveUp ==
    /\ Attempted
    /\ ~resp.frame.result
    /\ NothingSince
    /\ client.initialization_error = "refused"

\* C29: initialisation attempts are rate limited: an initialize() call on a
\* client that is not initialised which begins less than 60 seconds after the
\* start of the previous attempt sequence returns False without contacting the
\* chain, so two attempt sequences of one client start at least 60 seconds
\* apart.
C29_RateLimited ==
    /\ (resp.op = "initialize" /\ ~resp.frame.wasInit /\ ~env.pytest
          /\ resp.frame.began - resp.frame.prev < InitRetryInterval)
         => (~resp.frame.result /\ resp.frame.opened = 0)
    /\ \A i \in DOMAIN calls :
          /\ calls[i].began - calls[i].prev >= InitRetryInterval
          /\ \A j \in DOMAIN calls \ {i} :
                \/ calls[i].began - calls[j].began >= InitRetryInterval
                \/ calls[j].began - calls[i].began >= InitRetryInterval
    /\ Attempted =>
          /\ resp.frame.began - resp.frame.prev >= InitRetryInterval
          /\ \A i \in DOMAIN calls :
                \/ calls[i].began - resp.frame.began >= InitRetryInterval
                \/ resp.frame.began - calls[i].began >= InitRetryInterval

\* A call turned away by the rate limit while the client is not initialised,
\* 59 seconds or less after a sequence that failed
C29_Witness ==
    /\ resp.op = "initialize"
    /\ ~env.pytest
    /\ ~client.is_initialized
    /\ client.initialization_error # ""
    /\ resp.frame.began > resp.frame.prev
    /\ resp.frame.prev >= Epoch
    /\ resp.frame.began - resp.frame.prev < InitRetryInterval
    /\ ~resp.frame.result
    /\ resp.frame.opened = 0

\* C30: client initialisation is monotonic and consistent: once is_initialized
\* is true it never becomes false again, and in every reachable state
\* is_initialized = true implies that initialization_error is empty and that a
\* chain connection object is set, so /health never reports 'healthy' together
\* with an error field. (Monotonic, seen from the calls: a call that found the
\* client initialised or returned True leaves it initialised.) In the code a
\* second attempt sequence, running beside the one that succeeded, stores its
\* failure in a client that is initialised; and under pytest the constructor
\* sets is_initialized without a connection.
C30_InitConsistent ==
    /\ client.is_initialized =>
          /\ client.initialization_error = ""
          /\ client.async_subtensor
    /\ (resp.op = "initialize" /\ (resp.frame.wasInit \/ (resp.frame.result /\ ~env.pytest)))
          => client.is_initialized
    /\ resp.op = "health" => ~(resp.health.status = "healthy" /\ resp.health.error # "")

---------------------------------------------------------------------------
(* The broker's queues: where the API's apply_async puts a job of
   process_stake_operation, and which queues a worker takes messages from. A
   worker consumes the queues named by its -Q option; started without one it
   consumes the queues of app.conf.task_queues, which celery_worker.py never
   sets, so Celery's default queue 'celery' alone. A queue named only in
   task_routes is created for sending. The redis broker keeps a message until
   a worker takes it: the expiry is looked at by the worker that receives it. *)

MaxRouted == 2        \* jobs the API sends
RouteHorizon == 122   \* the clock runs from Epoch this far

\* app.conf.task_routes; a task without a route goes to the default queue
Route(name) ==
    IF name = "celery_worker.process_stake_operation" THEN "stake_operations" ELSE "celery"

\* The queues a worker started with the -Q option q (none: {}) consumes
ConsumeFrom(q) == IF q = {} THEN {"celery"} ELSE q

\* celery_proc of run_local.py: celery -A celery_worker worker --loglevel=info
RunLocalQ == {}

\* The API is up and no worker runs yet; the worker to come is run_local.py's or
\* one started by hand with -Q stake_operations
InitRoute ==
    /\ now = Epoch
    /\ env \in [pytest : {FALSE}, auth : {TRUE}, netuidOk : {TRUE}, keys : {TRUE},
                Q : {RunLocalQ, {"stake_operations"}}]
    /\ started = FALSE
    /\ client = NoClient
    /\ cache = <<>>
    /\ queue = [q \in {"celery", "stake_operations"} |-> <<>>]
    /\ nextId = 1
    /\ resp = Idle
    /\ tasks = NoTasks
    /\ calls = <<>>
    /\ txs = <<>>
    /\ history = <<>>
    /\ issued = {}

\* The endpoint's trade branch: apply_async sends the job to the task's queue
RouteSend(netuid, hotkey) ==
    /\ nextId <= MaxRouted
    /\ queue' = [queue EXCEPT ![Route("celery_worker.process_stake_operation")] =
                    Append(@, ApplyAsync(NetuidInt(netuid), hotkey, now, nextId))]
    /\ tasks' = tasks @@ (nextId :> NewTask(now))
    /\ nextId' = nextId + 1
    /\ UNCHANGED <<now, env, started, client, cache, resp, calls, txs, history, issued>>

\* The worker process comes up
RouteWorkerStart ==
    /\ ~started
    /\ started' = TRUE
    /\ UNCHANGED <<now, env, client, cache, queue, nextId, resp, tasks, calls, txs,
                   history, issued>>

\* The worker takes the first message of a queue it consumes: an expired one is
\* revoked, any other is started
RouteConsume(q) ==
    /\ started
    /\ q \in ConsumeFrom(env.Q)
    /\ queue[q] # <<>>
    /\ tasks' = [tasks EXCEPT ![Head(queue[q]).id].state =
                    IF Expired(Head(queue[q]), now) THEN "REVOKED" ELSE "STARTED"]
    /\ queue' = [queue EXCEPT ![q] = Tail(@)]
    /\ UNCHANGED <<now, env, started, client, cache, nextId, resp, calls, txs,
                   history, issued>>

\* Time passes, to just past a message's expiry or by a minute
RouteTick(t) ==
    /\ t > now
    /\ t <= Epoch + RouteHorizon
    /\ now' = t
    /\ UNCHANGED <<env, started, client, cache, queue, nextId, resp, tasks, calls, txs,
                   history, issued>>

NextRoute ==
    \/ \E netuid \in {"18", "abc"}, hotkey \in {"hkA"} : RouteSend(netuid, hotkey)
    \/ RouteWorkerStart
    \/ \E q \in {"celery", "stake_operations"} : RouteConsume(q)
    \/ \E t \in {now + Step} \cup
                {queue["stake_operations"][i].expires + 1 :
                    i \in DOMAIN queue["stake_operations"]} :
         RouteTick(t)

SpecRoute == InitRoute /\ [][NextRoute]_vars

\* C32: every job enqueued by a trade=true request is eventually executed by a
\* worker or dropped at its expiry: the queue to which process_stake_operation is
\* routed is one that the worker started by run_local.py consumes, so that while
\* that worker runs no job lies in a queue the worker does not consume, and no
\* job is still in its queue once its expiry has passed by a minute. In the code
\* the job goes to 'stake_operations' and the worker consumes 'celery'.
C32_JobsConsumed ==
    (started /\ env.Q = RunLocalQ) =>
        /\ \A q \in DOMAIN queue : queue[q] # <<>> => q \in ConsumeFrom(env.Q)
        /\ \A q \in DOMAIN queue : \A i \in DOMAIN queue[q] :
              now <= queue[q][i].expires + Step

---------------------------------------------------------------------------
(* The API process from its start, with the calls of initialize() as frames:
   the task startup_event creates, the tasks /health creates, and the call a
   dividend request makes through ensure_initialized and awaits. The chain is
   unreachable when the process starts (get_current_block() raises) and may
   become reachable, for good. The cache is left out: a simulated value is
   written to it only after a failed query by an initialised client, and here a
   client is initialised only once the chain can be reached and stays so. *)

MaxRecCalls == 2      \* calls of initialize() inside their attempts at a time
ChainUpBy == 3        \* the chain becomes reachable this long after Epoch, or never

\* The clock runs until a sequence begun after the chain came up can have ended
RecoverHorizon == ChainUpBy + InitRetryInterval + 3

\* What the last operation answered; for a dividend request also when it was
\* made, when it was answered, and the call of initialize() it waited for
RecIdle == [op |-> "none", frame |-> NoInitFrame, health |-> NoHealth, source |-> "",
            asked |-> 0, answered |-> 0]

InitRecover ==
    /\ now = Epoch
    /\ env = [pytest |-> FALSE, auth |-> TRUE, netuidOk |-> TRUE, keys |-> TRUE, up |-> FALSE]
    /\ started = FALSE
    /\ client = NewClient(FALSE)
    /\ cache = <<>>
    /\ queue = <<>>
    /\ nextId = 1
    /\ resp = RecIdle
    /\ tasks = NoTasks
    /\ calls = <<>>
    /\ txs = <<>>
    /\ history = <<>>
    /\ issued = {}

\* The frame a new call gets: the first one free
FreeFrame == CHOOSE i \in (1..MaxRecCalls) \ DOMAIN calls :
                \A j \in (1..MaxRecCalls) \ DOMAIN calls : i <= j

\* A call of initialize() has run to its first await or its early return
RecBegun(r) ==
    /\ r.frame.pc # "returned" => (1..MaxRecCalls) \ DOMAIN calls # {}
    /\ client' = r.cl
    /\ calls' = IF r.frame.pc = "returned" THEN calls ELSE calls @@ (FreeFrame :> r.frame)

\* get_tao_dividends from ensure_initialized's answer on: the simulation for a
\* client that is not initialised, else the chain's value, or the simulation
\* when the query fails
DividendSource(cl, is_init, up) ==
    IF ~is_init THEN "sim"
    ELSE IF QueryChain(cl, [kind |-> IF up THEN "value" ELSE "raise", v |-> 0]).kind = "value"
    THEN "chain"
    ELSE "sim"

\* startup_event: asyncio.create_task(bittensor_client.initialize()), not awaited
RecStartup ==
    /\ ~started
    /\ started' = TRUE
    /\ RecBegun(InitializeEnter(client, now, env.pytest))
    /\ resp' = [RecIdle EXCEPT !.op = "startup"]
    /\ UNCHANGED <<now, env, cache, queue, nextId, tasks, txs, history, issued>>

\* GET /health: answers from the client as it is, and for a client that is not
\* initialised creates a task running initialize()
RecHealth ==
    /\ started
    /\ RecBegun(IF client.is_initialized
                THEN [cl |-> client, frame |-> NoInitFrame]
                ELSE InitializeEnter(client, now, env.pytest))
    /\ resp' = [RecIdle EXCEPT
                   !.op = "health",
                   !.health = HealthCheck(GetClient(client, env), env, now, 0).body]
    /\ UNCHANGED <<now, env, started, cache, queue, nextId, tasks, txs, history, issued>>

\* A dividend request: get_tao_dividends awaits ensure_initialized(), which for a
\* client that is not initialised awaits initialize(). The request is answered
\* at once when that returns at once, and else waits for the attempts.
RecDividends ==
    /\ started
    /\ LET r == InitializeEnter(client, now, env.pytest) IN
       /\ RecBegun(r)
       /\ IF r.frame.pc = "returned"
          THEN /\ resp' = [RecIdle EXCEPT
                              !.op = "dividends", !.asked = now, !.answered = now,
                              !.source = DividendSource(r.cl, r.frame.result, env.up)]
               /\ tasks' = tasks
          ELSE /\ resp' = resp
               /\ tasks' = tasks @@ (FreeFrame :> [asked |-> now])
    /\ UNCHANGED <<now, env, started, cache, queue, nextId, txs, history, issued>>

\* get_current_block() of an attempt answers when the chain can be reached and
\* raises when it cannot; a dividend request whose call returns goes on
RecAnswer(i) ==
    /\ i \in DOMAIN calls
    /\ calls[i].pc = "awaiting"
    /\ LET r == InitializeAnswered(client, calls[i], env.up,
                                   IF env.up THEN "" ELSE "timeout", now)
       IN
       /\ client' = r.cl
       /\ IF r.frame.pc # "returned"
          THEN /\ calls' = [calls EXCEPT ![i] = r.frame]
               /\ resp' = resp
               /\ tasks' = tasks
          ELSE /\ calls' = [j \in DOMAIN calls \ {i} |-> calls[j]]
               /\ tasks' = [j \in DOMAIN tasks \ {i} |-> tasks[j]]
               /\ resp' = IF i \in DOMAIN tasks
                          THEN [RecIdle EXCEPT
                                   !.op = "dividends", !.asked = tasks[i].asked,
                                   !.answered = now, !.frame = r.frame,
                                   !.source = DividendSource(r.cl, r.frame.result, env.up)]
                          ELSE [RecIdle EXCEPT !.op = "initialize", !.frame = r.frame]
    /\ UNCHANGED <<now, env, started, cache, queue, nextId, txs, history, issued>>

\* The chain becomes reachable
RecChainUp ==
    /\ ~env.up
    /\ now <= Epoch + ChainUpBy
    /\ env' = [env EXCEPT !.up = TRUE]
    /\ UNCHANGED <<now, started, client, cache, queue, nextId, resp, tasks, calls, txs,
                   history, issued>>

\* Time passes; no sleep is left behind
RecTick(t) ==
    /\ t > now
    /\ t <= Epoch + RecoverHorizon
    /\ \A i \in DOMAIN calls : calls[i].pc = "sleeping" => calls[i].wake >= t
    /\ now' = t
    /\ UNCHANGED <<env, started, client, cache, queue, nextId, resp, tasks, calls, txs,
                   history, issued>>

\* The instants: a sleep is due, the retry interval is over, and half a retry
\* interval later, when a request finds the rate limit in force
RecTicks ==
    \E t \in {calls[i].wake : i \in DOMAIN calls}
             \cup {client.last_init_attempt + InitRetryInterval}
             \cup {now + InitRetryInterval \div 2} : RecTick(t)

NextRecover ==
    \/ RecStartup
    \/ RecHealth
    \/ RecDividends
    \/ \E i \in 1..MaxRecCalls : RecAnswer(i)
    \/ \E i \in 1..MaxRecCalls : InitWake(i)
    \/ RecChainUp
    \/ RecTicks

SpecRecover == InitRecover /\ [][NextRecover]_vars

\* Requests keep arriving, awaits and sleeps end, time passes
SpecRecoverLive ==
    /\ SpecRecover
    /\ WF_vars(RecStartup)
    /\ WF_vars(RecHealth)
    /\ WF_vars(RecDividends)
    /\ WF_vars(\E i \in 1..MaxRecCalls : RecAnswer(i))
    /\ WF_vars(\E i \in 1..MaxRecCalls : InitWake(i))
    /\ WF_vars(RecTicks)

\* C31: recovery: if the chain is unreachable at startup and later becomes and
\* stays reachable, and health and dividend requests keep arriving, then the
\* client eventually becomes initialised, /health eventually reports 'healthy',
\* and dividend requests eventually return chain values instead of simulated ones.
C31_Recovers ==
    /\ env.up ~> client.is_initialized
    /\ env.up ~> (resp.op = "health" /\ resp.health.status = "healthy")
    /\ env.up ~> (resp.op = "dividends" /\ resp.source = "chain")

\* The chain came up after the attempts of startup had failed, and a later
\* sequence initialised the client
C31_Witness ==
    /\ env.up
    /\ client.is_initialized
    /\ client.last_init_attempt >= Epoch + InitRetryInterval
    /\ resp.op = "dividends"
    /\ resp.source = "chain"

\* C34: application startup never waits for the chain: the startup handler
\* completes, and /health and the dividend endpoint answer requests, while client
\* initialisation is still running or after it has failed; a failed or never
\* finishing initialisation cannot block a request: no request is waiting on
\* a call of initialize(), and no dividend request was answered after waiting
\* for one. In the code a dividend request made 60 seconds or more after the
\* last sequence began awaits a sequence of its own.
C34_NeverWaits ==
    /\ tasks = NoTasks
    /\ resp.op = "dividends" =>
          /\ resp.frame = NoInitFrame
          /\ resp.answered = resp.asked
====
